---- MODULE Spec2Model ----
(***************************************************************************)
(* Cendika communication platform: the OTP lifecycle                       *)
(* (VerificationService over VerificationStorageService).                  *)
(*                                                                         *)
(* The relational store is taken to be available and to execute each       *)
(* single query atomically; a service call is a sequence of such queries   *)
(* and other calls may run between any two of them.  Time is in            *)
(* milliseconds, as Date.getTime() gives it.                               *)
(***************************************************************************)
EXTENDS Integers, Sequences, FiniteSets, TLC

VARIABLES
    otps,      \* the otpMessage table, in insertion order; a row's id is its index
    now,       \* the wall clock, in ms
    calls,     \* per request task: position in the service call and its locals
    ret,       \* the response a call returns in this step (NoResponse otherwise)
    okCount,   \* history: per otp id, how many verifyOTP calls returned success
    outbox,    \* otp ids whose SMS was accepted by SMSService.sendSMS
    sched,     \* "serial": a call runs to completion before the next starts;
               \* "interleaved": calls interleave at their store operations;
               \* "sms": the calls are those of the SMS API;
               \* otherwise the name of the service whose functions are applied
    pinTypes,  \* history: per otp id, the pin type its code was generated with
    messages,  \* the message table, in insertion order; a row's id is its index
    queue,     \* ids of the messages handed to queueMessageForSending
    batches,   \* number of batch ids drawn so far
    cancels,   \* per request task: the message a cancelSMS call has found
    smsRet,    \* the response an SMS API call returns in this step
    providerTable, \* the provider table: per provider id its row
    rateLimitStore, \* the rate limiter's entries: per key its count and resetAt
    passed,    \* history: per key and limiter, the requests passed in the window
    arg,       \* the input a service function is applied to
    result,    \* what the function, selection or middleware returned
    failures,  \* history: per provider, the failures recorded since its last
               \* success, and whether any was ever recorded
    accountTable, \* the account table: per account id its two balances
    billing    \* per request task: its position between checkBalance and deductBalance

smsVars == <<messages, queue, batches, cancels, smsRet>>

billVars == <<accountTable, billing>>

libVars == <<providerTable, rateLimitStore, passed, arg, result, failures, billVars>>

vars == <<otps, now, calls, ret, okCount, outbox, sched, pinTypes, smsVars, libVars>>

(* ------------------------------ bounds --------------------------------- *)
MaxOtps == 2
MaxNow == 90000
TickSteps == {30000}
Procs == {"t1", "t2"}
\* calls made one after the other need one task
SerialProcs == {"t1"}
\* an account id is the sequence of its '_'-separated segments
Accounts == {<<"acc1">>, <<"acc2">>}
\* the accounts 'acc1' and 'acc1_eu'
UnderscoreAccounts == {<<"acc1">>, <<"acc1", "eu">>}
\* the account the interleaved calls contend on
RaceAccounts == {<<"acc1">>}
\* phone numbers and codes are sequences of characters
GhPhone == <<"+", "2", "3", "3", "2", "4", "4", "1", "2", "3", "4", "5", "6">>
Phones == {GhPhone}
\* the codes Math.random may produce, one per alphabet that has no other
GenCodes == {<<"A", "B", "C", "D">>, <<"1", "2", "3", "4">>}
SubmittedCodes == {<<"a", "b", "c", "d">>, <<"A", "B", "C", "E">>}
MaxAttemptsChoices == {2}
ExpiryChoices == {[amount |-> 1, duration |-> "minutes"]}
PinLengthChoices == {4}
PinTypeChoices == {"ALPHABETIC"}
\* what SMSRouterService.routeMessage may select: no provider, or one
ProviderChoices == {"none", "hubtel"}
\* rows of the message table, and bulk calls
MaxMessages == 2
MaxBatches == 2
\* how many recipients a bulk request names
RecipientCounts == {1, 2}
\* a number without '+'
LocalPhone == <<"0", "2", "4", "4", "1", "2", "3", "4", "5", "6">>
MalformedPhones == {LocalPhone}
SmsPhones == Phones \cup MalformedPhones
HelloText == [id |-> "hello", length |-> 5, trimmedLength |-> 5, code |-> <<>>, gsm7 |-> TRUE]
EmptyText == [id |-> "empty", length |-> 0, trimmedLength |-> 0, code |-> <<>>, gsm7 |-> TRUE]
BlankText == [id |-> "blank", length |-> 3, trimmedLength |-> 0, code |-> <<>>, gsm7 |-> TRUE]
LongText == [id |-> "long", length |-> 1601, trimmedLength |-> 1601, code |-> <<>>, gsm7 |-> TRUE]
\* a text with a character outside the GSM-7 alphabet
UnicodeText == [id |-> "unicode", length |-> 71, trimmedLength |-> 71, code |-> <<>>, gsm7 |-> FALSE]
SmsTexts == {HelloText, EmptyText, BlankText, LongText, UnicodeText}
\* the longest text whose units are computed on its own
MaxTextLength == 320
\* scheduledFor: absent, or one minute after the start
Schedules == {<<>>, <<60000>>}
\* the SendOTPRequest bodies: no custom message, no sender named
Requests ==
    [pinLength : PinLengthChoices, pinType : PinTypeChoices,
     maxAttempts : MaxAttemptsChoices, expiry : ExpiryChoices]

(* ------------------------- program constants --------------------------- *)
CooldownSeconds == 30

PENDING == "PENDING"
VERIFIED == "VERIFIED"
FAILED == "FAILED"
EXPIRED == "EXPIRED"
OTPStatus == {PENDING, VERIFIED, FAILED, EXPIRED}

NoOtp == [id |-> 0]
NoExpiry == [amount |-> 0, duration |-> "minutes"]

(* ------------------------------ OTPService ----------------------------- *)
Digits == {"0", "1", "2", "3", "4", "5", "6", "7", "8", "9"}
LowerCase == <<"a", "b", "c", "d", "e", "f", "g", "h", "i", "j", "k", "l", "m",
               "n", "o", "p", "q", "r", "s", "t", "u", "v", "w", "x", "y", "z">>
UpperCase == <<"A", "B", "C", "D", "E", "F", "G", "H", "I", "J", "K", "L", "M",
               "N", "O", "P", "Q", "R", "S", "T", "U", "V", "W", "X", "Y", "Z">>
Range(f) == {f[k] : k \in DOMAIN f}

\* String.prototype.toUpperCase
toUpperCase(s) ==
    [k \in 1..Len(s) |->
        IF s[k] \in Range(LowerCase)
        THEN UpperCase[CHOOSE n \in 1..26 : LowerCase[n] = s[k]]
        ELSE s[k]]

\* the alphabet of generateCode's switch (type)
Characters(type) ==
    CASE type = "NUMERIC"      -> Digits
      [] type = "ALPHANUMERIC" -> Digits \cup Range(UpperCase)
      [] type = "ALPHABETIC"   -> Range(UpperCase)
      [] OTHER                 -> {}

\* the codes of that length over that alphabet
generateCode(length, type) ==
    {code \in GenCodes :
        /\ Len(code) = length
        /\ \A k \in 1..Len(code) : code[k] \in Characters(type)}

\* bcrypt: a one-way image of the code, never the code itself
hashCode(code) == <<"bcrypt", code>>

verifyCode(code, hash) == hash = hashCode(code)

calculateExpiry(t, amount, duration) ==
    t + (CASE duration = "seconds" -> amount * 1000
           [] duration = "minutes" -> amount * 60 * 1000
           [] duration = "hours"   -> amount * 60 * 60 * 1000
           [] OTHER -> 0)

isExpired(t, expiresAt) == t > expiresAt

\* Math.round(ms / 60000)
RoundMinutes(ms) == (ms + 30000) \div 60000

(* ---------------------- VerificationStorageService --------------------- *)
\* `${accountId}_${phone}`
CompositeId(accountId, phone) == accountId \o <<phone>>

\* data.id.split('_')[0]
SplitFirst(id) == <<Head(id)>>

Ids(db) == 1..Len(db)

storeOTP(db, t, data) ==
    Append(db, [accountId   |-> SplitFirst(data.id),
                recipient   |-> data.phone,
                codeHash    |-> data.codeHash,
                status      |-> data.status,
                expiresAt   |-> data.expiresAt,
                maxAttempts |-> data.maxAttempts,
                codeLength  |-> data.pinLength,
                senderName  |-> data.senderId,
                attempts    |-> 0,
                createdAt   |-> t])

\* findFirst ... orderBy createdAt desc: the candidates among which the
\* store returns one (rows with equal createdAt are in no defined order)
LatestOf(db, S) == {i \in S : \A j \in S : db[j].createdAt <= db[i].createdAt}

\* getActiveOTP with expiresAt: { gte: now }
ActiveOTPs_gte(db, t, accountId, phone) ==
    LatestOf(db, {i \in Ids(db) : /\ db[i].accountId = accountId
                                  /\ db[i].recipient = phone
                                  /\ db[i].status = PENDING
                                  /\ db[i].expiresAt >= t})

ActiveOTPs(db, t, accountId, phone) ==
    LatestOf(db, {i \in Ids(db) : /\ db[i].accountId = accountId
                                  /\ db[i].recipient = phone
                                  /\ db[i].status = PENDING
                                  /\ db[i].expiresAt > t})

Snapshot(db, i) == [id |-> i] @@ db[i]

LastOTPs(db, accountId, phone) ==
    LatestOf(db, {i \in Ids(db) : /\ db[i].accountId = accountId
                                  /\ db[i].recipient = phone})

incrementAttempts(db, id) == [db EXCEPT ![id].attempts = @ + 1]

markAsVerified(db, id) == [db EXCEPT ![id].status = VERIFIED]

\* markAsFailed that writes nothing
markAsFailed_skipped(db, id) == db

markAsFailed(db, id) == [db EXCEPT ![id].status = FAILED]

markAsExpired(db, id) == [db EXCEPT ![id].status = EXPIRED]

\* requestOTP without the invalidation step
invalidatePendingOTPs_none(db, accountId, phone) == db

\* an updateMany whose where lacks the accountId
invalidatePendingOTPs_anyAccount(db, accountId, phone) ==
    [i \in Ids(db) |->
        IF db[i].recipient = phone /\ db[i].status = PENDING
        THEN [db[i] EXCEPT !.status = EXPIRED]
        ELSE db[i]]

invalidatePendingOTPs(db, accountId, phone) ==
    [i \in Ids(db) |->
        IF /\ db[i].accountId = accountId
           /\ db[i].recipient = phone
           /\ db[i].status = PENDING
        THEN [db[i] EXCEPT !.status = EXPIRED]
        ELSE db[i]]

\* Math.ceil(remainingMs / 1000)
CeilSeconds(ms) == (ms + 999) \div 1000

\* the cooldown never applied
checkRateLimit_open(db, t, accountId, phone, cooldownSeconds) ==
    [canSend |-> TRUE, remainingSeconds |-> 0]

checkRateLimit(db, t, accountId, phone, cooldownSeconds) ==
    LET last == LastOTPs(db, accountId, phone)
    IN  IF last = {} THEN [canSend |-> TRUE, remainingSeconds |-> 0]
        ELSE LET lastSentAt == db[CHOOSE i \in last : TRUE].createdAt
                 cooldownMs == cooldownSeconds * 1000
                 elapsed    == t - lastSentAt
             IN  IF elapsed < cooldownMs
                 THEN [canSend |-> FALSE,
                       remainingSeconds |-> CeilSeconds(cooldownMs - elapsed)]
                 ELSE [canSend |-> TRUE, remainingSeconds |-> 0]

cleanupExpired_anyStatus(db, t) ==
    [i \in Ids(db) |->
        IF db[i].expiresAt < t THEN [db[i] EXCEPT !.status = EXPIRED] ELSE db[i]]

cleanupExpired(db, t) ==
    [i \in Ids(db) |->
        IF db[i].status = PENDING /\ db[i].expiresAt < t
        THEN [db[i] EXCEPT !.status = EXPIRED]
        ELSE db[i]]

(* ------------------------------ message texts -------------------------- *)
\* a text is known by its length, its length once trimmed, and the OTP code
\* written in it (<<>> if none)
NoText == [id |-> "none", length |-> 0, trimmedLength |-> 0, code |-> <<>>, gsm7 |-> TRUE]

\* OTPService.formatDuration
formatDuration(amount, duration) ==
    IF amount = 1
    THEN CASE duration = "seconds" -> "second"
           [] duration = "minutes" -> "minute"
           [] duration = "hours"   -> "hour"
           [] OTHER                -> duration
    ELSE duration

DecimalLength(n) == IF n < 10 THEN 1 ELSE IF n < 100 THEN 2 ELSE 3

\* `Your ${brandName} verification code is ${code}. It expires in ${amount} ${formattedDuration}.`
getDefaultMessage(code, amount, duration, from) ==
    LET brandName == IF from = "" THEN "AfriCom" ELSE from
        n == Len("Your ") + Len(brandName) + Len(" verification code is ")
             + Len(code) + Len(". It expires in ") + DecimalLength(amount)
             + Len(" ") + Len(formatDuration(amount, duration)) + Len(".")
    IN  [id |-> "otp", length |-> n, trimmedLength |-> n, code |-> code, gsm7 |-> TRUE]

(* --------------------------- sender identities ------------------------- *)
NoSender == [id |-> "", name |-> ""]

\* the senderId table: acc1 and acc1_eu have an approved, active default
\* identity, acc2 has none that is approved
SenderIds ==
    {[id |-> "sid1", accountId |-> <<"acc1">>, name |-> "Cendika",
      status |-> "APPROVED", isActive |-> TRUE, isDefault |-> TRUE],
     [id |-> "sid3", accountId |-> <<"acc1", "eu">>, name |-> "CendikaEU",
      status |-> "APPROVED", isActive |-> TRUE, isDefault |-> TRUE],
     [id |-> "sid2", accountId |-> <<"acc2">>, name |-> "Acme",
      status |-> "PENDING", isActive |-> TRUE, isDefault |-> TRUE]}

ApprovedSenders(accountId) ==
    {r \in SenderIds : r.accountId = accountId /\ r.status = "APPROVED" /\ r.isActive}

\* the identities the three findFirst queries may return, in their order
SenderChain(accountId, requestedSenderId) ==
    LET approved == ApprovedSenders(accountId)
        named    == {r \in approved : r.name = requestedSenderId}
        default  == {r \in approved : r.isDefault}
    IN  IF requestedSenderId # "" /\ named # {} THEN named
        ELSE IF default # {} THEN default
        ELSE approved

\* VerificationService.resolveSenderId: falls back to the brand name
resolveSenderId(accountId, requestedSenderId) ==
    LET found == SenderChain(accountId, requestedSenderId)
    IN  IF found # {}
        THEN {[id |-> r.id, name |-> r.name] : r \in found}
        ELSE {[id |-> "default", name |-> "AfriCom"]}

\* SMSService.resolveSenderId: throws when nothing is found ({} here)
SMSService_resolveSenderId(accountId, requestedSenderId) ==
    {[id |-> r.id, name |-> r.name] : r \in SenderChain(accountId, requestedSenderId)}

(* ------------------------- SMSValidationService ------------------------ *)
MaxMessageLength == 1600

\* a validation that accepts every number
validatePhoneNumber_lax(phone) ==
    [valid |-> TRUE, formatted |-> SelectSeq(phone, LAMBDA ch : ch \in Digits \cup {"+"})]

validatePhoneNumber(phone) ==
    LET cleaned == SelectSeq(phone, LAMBDA ch : ch \in Digits \cup {"+"})
        noPlus  == cleaned = <<>> \/ Head(cleaned) # "+"
        badLen  == Len(cleaned) < 10 \/ Len(cleaned) > 16
    IN  [valid |-> ~noPlus /\ ~badLen, formatted |-> cleaned]

SingleGsm7 == 160
ConcatGsm7 == 153
SingleUcs2 == 70
ConcatUcs2 == 67

\* Math.ceil(a / b) for a >= 0 and b > 0
Ceil(a, b) == (a + b - 1) \div b

\* units that round down
calculateMessageUnits_floor(length, gsm7) ==
    LET single == IF gsm7 THEN SingleGsm7 ELSE SingleUcs2
        concat == IF gsm7 THEN ConcatGsm7 ELSE ConcatUcs2
    IN  [messageLength     |-> length,
         units             |-> IF length = 0 THEN 0
                               ELSE IF length <= single THEN 1
                               ELSE length \div concat,
         encoding          |-> IF gsm7 THEN "GSM-7" ELSE "UCS-2",
         charactersPerUnit |-> IF length > single THEN concat ELSE single]

\* SMSValidationService.calculateMessageUnits of a text of the given length;
\* gsm7 is the outcome of gsm7chars.test(message)
calculateMessageUnits(length, gsm7) ==
    LET single == IF gsm7 THEN SingleGsm7 ELSE SingleUcs2
        concat == IF gsm7 THEN ConcatGsm7 ELSE ConcatUcs2
    IN  [messageLength     |-> length,
         units             |-> IF length = 0 THEN 0
                               ELSE IF length <= single THEN 1
                               ELSE Ceil(length, concat),
         encoding          |-> IF gsm7 THEN "GSM-7" ELSE "UCS-2",
         charactersPerUnit |-> IF length > single THEN concat ELSE single]

\* a validation without the length limit
validateMessage_noLimit(message) ==
    [valid |-> ~(message.length = 0 \/ message.trimmedLength = 0)]

validateMessage(message) ==
    LET empty   == message.length = 0 \/ message.trimmedLength = 0
        tooLong == message.length > MaxMessageLength
    IN  [valid |-> ~empty /\ ~tooLong]

(* ----------------------------- SMSRouterService ------------------------ *)
\* money is counted in thousandths of a cedi: 0.035 GHS is 35
FallbackRate == 35

StartsWith(s, prefix) == Len(s) >= Len(prefix) /\ SubSeq(s, 1, Len(prefix)) = prefix

\* phone.replace(/\D/g, '')
DigitsOf(phone) == SelectSeq(phone, LAMBDA ch : ch \in Digits)

\* phone.replace(/[^\d+]/g, '')
DigitsAndPlus(phone) == SelectSeq(phone, LAMBDA ch : ch \in Digits \cup {"+"})

\* africanCountries of OTPService.normalizePhoneNumber, in its order
africanCountries ==
    << [code |-> <<"2", "3", "3">>, length |-> 10], [code |-> <<"2", "3", "4">>, length |-> 11],
       [code |-> <<"2", "5", "4">>, length |-> 10], [code |-> <<"2", "7">>, length |-> 10],
       [code |-> <<"2", "5", "6">>, length |-> 10], [code |-> <<"2", "5", "5">>, length |-> 10],
       [code |-> <<"2", "5", "0">>, length |-> 10], [code |-> <<"2", "2", "5">>, length |-> 10],
       [code |-> <<"2", "2", "1">>, length |-> 9], [code |-> <<"2", "3", "7">>, length |-> 9],
       [code |-> <<"2", "0">>, length |-> 11], [code |-> <<"2", "1", "2">>, length |-> 10],
       [code |-> <<"2", "1", "3">>, length |-> 10], [code |-> <<"2", "5", "1">>, length |-> 10] >>

\* the first element of a non-empty set of indices (the loop returns there)
FirstOf(indices) == CHOOSE i \in indices : \A j \in indices : i <= j

\* a normalization without the early return for numbers that start with +
normalizePhoneNumber_noReturn(phone) ==
    LET cleaned == DigitsAndPlus(phone)
    IN  IF Len(cleaned) >= 9 THEN <<"+">> \o cleaned ELSE cleaned

\* OTPService.normalizePhoneNumber
normalizePhoneNumber(phone) ==
    LET cleaned  == DigitsAndPlus(phone)
        all      == 1..Len(africanCountries)
        byLength == {i \in all : Len(cleaned) = africanCountries[i].length}
        byCode   == {i \in all : StartsWith(cleaned, africanCountries[i].code)}
    IN  IF StartsWith(cleaned, <<"+">>) THEN cleaned
        ELSE IF StartsWith(cleaned, <<"0">>) /\ byLength # {}
        THEN <<"+">> \o africanCountries[FirstOf(byLength)].code \o Tail(cleaned)
        ELSE IF byCode # {} THEN <<"+">> \o cleaned
        ELSE IF Len(cleaned) >= 9 THEN <<"+">> \o cleaned
        ELSE cleaned

\* countryCodeMap in the order Object.entries gives its keys (integer-like
\* keys come in ascending order)
countryCodeMap ==
    << [code |-> <<"2", "0">>, country |-> "EG"],
       [code |-> <<"2", "7">>, country |-> "ZA"],
       [code |-> <<"2", "1", "2">>, country |-> "MA"],
       [code |-> <<"2", "1", "3">>, country |-> "DZ"],
       [code |-> <<"2", "2", "1">>, country |-> "SN"],
       [code |-> <<"2", "2", "5">>, country |-> "CI"],
       [code |-> <<"2", "3", "3">>, country |-> "GH"],
       [code |-> <<"2", "3", "4">>, country |-> "NG"],
       [code |-> <<"2", "3", "7">>, country |-> "CM"],
       [code |-> <<"2", "5", "0">>, country |-> "RW"],
       [code |-> <<"2", "5", "1">>, country |-> "ET"],
       [code |-> <<"2", "5", "4">>, country |-> "KE"],
       [code |-> <<"2", "5", "5">>, country |-> "TZ"],
       [code |-> <<"2", "5", "6">>, country |-> "UG"] >>

getCountryFromPhone(phone) ==
    LET cleaned == DigitsOf(phone)
        hits    == {k \in 1..Len(countryCodeMap) : StartsWith(cleaned, countryCodeMap[k].code)}
    IN  IF hits = {} THEN "GH"
        ELSE countryCodeMap[CHOOSE k \in hits : \A j \in hits : k <= j].country

\* the two digits after the country code that name a Ghanaian network
GhanaPrefixes ==
    [vodafone   |-> {<<"2", "0">>, <<"5", "0">>, <<"2", "3">>, <<"2", "8">>},
     mtn        |-> {<<"2", "4">>, <<"5", "4">>, <<"5", "5">>, <<"5", "9">>},
     airteltigo |-> {<<"2", "6">>, <<"5", "6">>, <<"2", "7">>, <<"5", "7">>}]

\* SMSRouterService.detectNetworkFromPhone for the numbers of Ghana; "" is
\* no network (null)
detectNetworkFromPhone(phone) ==
    LET cleaned == DigitsOf(phone)
        prefix  == SubSeq(cleaned, 4, 5)
    IN  IF ~StartsWith(cleaned, <<"2", "3", "3">>) THEN ""
        ELSE IF prefix \in GhanaPrefixes.vodafone THEN "vodafone"
        ELSE IF prefix \in GhanaPrefixes.mtn THEN "mtn"
        ELSE IF prefix \in GhanaPrefixes.airteltigo THEN "airteltigo"
        ELSE ""

\* findFirst's where clause of getPricing at time t; network "" is null
MatchingRates(rates, t, country, network, messageType) ==
    {r \in rates :
        /\ r.country = country
        /\ r.network = network
        /\ r.messageType = messageType
        /\ r.serviceType = "SMS"
        /\ r.isActive
        /\ r.effectiveFrom <= t
        /\ (r.effectiveTo = <<>> \/ r.effectiveTo[1] >= t)}

FallbackPricing(country, network, units) ==
    [country |-> country, network |-> network, ratePerUnit |-> FallbackRate,
     currency |-> "GHS", units |-> units, totalCost |-> FallbackRate * units]

\* a pricing that lets a store error through: nothing is returned
getPricing_rethrow(rates, t, country, network, messageType, units, storeOk) ==
    LET matching == MatchingRates(rates, t, country, network, messageType)
    IN  IF ~storeOk THEN {}
        ELSE IF matching = {} THEN {FallbackPricing(country, network, units)}
        ELSE {[country |-> country, network |-> network, ratePerUnit |-> r.ratePerUnit,
               currency |-> r.currency, units |-> units,
               totalCost |-> r.ratePerUnit * units] :
                 r \in {m \in matching : \A q \in matching : q.effectiveFrom <= m.effectiveFrom}}

\* a pricing of one unit whatever the units
getPricing_oneUnit(rates, t, country, network, messageType, units, storeOk) ==
    {FallbackPricing(country, network, 1)}

\* SMSRouterService.getPricing at time t: what it may return (rows with the
\* same effectiveFrom come in any order); storeOk is false when the lookup
\* raises
getPricing(rates, t, country, network, messageType, units, storeOk) ==
    LET matching == MatchingRates(rates, t, country, network, messageType)
        latest   == {r \in matching : \A q \in matching : q.effectiveFrom <= r.effectiveFrom}
    IN  IF ~storeOk \/ matching = {}
        THEN {FallbackPricing(country, network, units)}
        ELSE {[country |-> country, network |-> network, ratePerUnit |-> r.ratePerUnit,
               currency |-> r.currency, units |-> units,
               totalCost |-> r.ratePerUnit * units] : r \in latest}

\* errorCount above which checkProviderHealth reports a provider unhealthy
UnhealthyErrorCount == 10

NoSelection == [kind |-> "provider", id |-> ""]

\* findMany({ type: 'SMS', status: 'ACTIVE', supportedCountries: { has } })
\* without the status
ActiveSmsProviders_anyStatus(table, country) ==
    {id \in DOMAIN table : table[id].type = "SMS" /\ country \in table[id].supportedCountries}

\* findMany({ type: 'SMS', status: 'ACTIVE', supportedCountries: { has } })
ActiveSmsProviders(table, country) ==
    {id \in DOMAIN table :
        /\ table[id].type = "SMS"
        /\ table[id].status = "ACTIVE"
        /\ country \in table[id].supportedCountries}

\* orderBy priority desc, successRate desc: a comes strictly before b
Before(table, a, b) ==
    \/ table[a].priority > table[b].priority
    \/ table[a].priority = table[b].priority /\ table[a].successRate > table[b].successRate

\* the stable sort of the priority switch: a comes strictly before b
SortedBefore(table, priority, a, b) ==
    CASE priority = "speed" ->
            \/ table[a].avgLatency < table[b].avgLatency
            \/ table[a].avgLatency = table[b].avgLatency /\ Before(table, a, b)
      [] priority = "reliability" ->
            \/ table[a].successRate > table[b].successRate
            \/ table[a].successRate = table[b].successRate /\ Before(table, a, b)
      [] OTHER -> Before(table, a, b)

\* SMSRouterService.selectProvider: the providers it may return ({}: null);
\* rows that the order does not tell apart come in any order
selectProvider(table, criteria) ==
    LET found    == ActiveSmsProviders(table, criteria.country)
        byNet    == {id \in found : criteria.network \in table[id].supportedNetworks}
        filtered == IF criteria.network # "" /\ byNet # {} THEN byNet ELSE found
    IN  {id \in filtered :
            \A other \in filtered : ~SortedBefore(table, criteria.priority, other, id)}

\* SMSRouterService.routeMessage: the providers it may hand back
routeMessage(table, to, messageType, priority) ==
    selectProvider(table, [country     |-> getCountryFromPhone(to),
                           network     |-> detectNetworkFromPhone(to),
                           messageType |-> messageType,
                           priority    |-> priority])

\* SMSRouterService.checkProviderHealth
checkProviderHealth(table, providerId) ==
    /\ providerId \in DOMAIN table
    /\ table[providerId].status = "ACTIVE"
    /\ table[providerId].errorCount <= UnhealthyErrorCount

\* an update that only stamps lastCheckedAt on success
updateProviderStats_noReset(table, providerId, success) ==
    [table EXCEPT ![providerId].errorCount = IF success THEN @ ELSE @ + 1]

\* SMSRouterService.updateProviderStats
updateProviderStats(table, providerId, success) ==
    [table EXCEPT ![providerId].errorCount = IF success THEN 0 ELSE @ + 1]

\* a pricingRate row of Ghana for single messages
Rate(network, isActive, effectiveFrom, effectiveTo, ratePerUnit) ==
    [country |-> "GH", network |-> network, messageType |-> "SMS", serviceType |-> "SMS",
     isActive |-> isActive, effectiveFrom |-> effectiveFrom, effectiveTo |-> effectiveTo,
     ratePerUnit |-> ratePerUnit, currency |-> "GHS"]

\* the pricingRate table the sends run against: one rate for single
\* messages to MTN Ghana, none for bulk messages
PricingRates == {Rate("mtn", TRUE, 0, <<>>, 30)}

\* the pricing of a message of the given type and units to a number at time t
PricingFor(to, messageType, units, t) ==
    CHOOSE pricing \in getPricing(PricingRates, t, getCountryFromPhone(to),
                                  detectNetworkFromPhone(to), messageType, units, TRUE) : TRUE

(* ------------------------------- SMSService ---------------------------- *)
MSG_PENDING == "PENDING"
MSG_QUEUED == "QUEUED"
MSG_SENT == "SENT"
MSG_DELIVERED == "DELIVERED"
MSG_FAILED == "FAILED"
MSG_EXPIRED == "EXPIRED"
MessageStatus == {MSG_PENDING, MSG_QUEUED, MSG_SENT, MSG_DELIVERED, MSG_FAILED, MSG_EXPIRED}

MsgTerminal == {MSG_DELIVERED, MSG_FAILED, MSG_EXPIRED}

NoProvider == "none"
NoMetadata == [type |-> "none", otpId |-> 0]

\* a comparison that takes the present moment for the future
isScheduled_gte(scheduledFor, t) == scheduledFor # <<>> /\ scheduledFor[1] >= t

\* scheduledFor is <<>> when absent and <<time>> when given
isScheduled(scheduledFor, t) == scheduledFor # <<>> /\ scheduledFor[1] > t

MessageRow(accountId, recipient, content, messageType, sender, status, provider, batchId, scheduledFor, metadata, units, pricing) ==
    [units        |-> units,
     unitCost     |-> pricing.ratePerUnit,
     totalCost    |-> pricing.totalCost,
     accountId    |-> accountId,
     recipient    |-> recipient,
     content      |-> content,
     messageType  |-> messageType,
     senderName   |-> sender.name,
     status       |-> status,
     provider     |-> provider,
     batchId      |-> batchId,
     scheduledFor |-> scheduledFor,
     metadata     |-> metadata,
     errorMessage |-> ""]

\* SMSService.queueMessageForSending: the promise of the handoff of message
\* id to the send queue; resolves is whether the queue takes the message
queueMessageForSending(q, id, resolves) ==
    [queue |-> IF resolves THEN q \cup {id} ELSE q, rejected |-> ~resolves]

\* a handoff that is awaited without a catch: its rejection is thrown
handOff_awaited(q, id, resolves) ==
    LET promise == queueMessageForSending(q, id, resolves)
    IN  [queue |-> promise.queue, error |-> IF promise.rejected THEN "queue_failed" ELSE ""]

\* this.queueMessageForSending(...).catch(err => logger.error(...)): the
\* promise is not awaited and its rejection is logged; nothing is thrown
handOff(q, id, resolves) ==
    [queue |-> queueMessageForSending(q, id, resolves).queue, error |-> ""]

\* SMSService.sendSMS on the message table db and the send queue q at time t;
\* provider is what SMSRouterService.routeMessage selects (NoProvider: null),
\* handoff whether the send queue takes the message.
\* error is "" when the call returns, and the thrown error otherwise.
sendSMS(db, q, t, accountId, request, provider, handoff) ==
    LET validation == validatePhoneNumber(request.to)
        senders    == SMSService_resolveSenderId(accountId, request.senderId)
        scheduled  == isScheduled(request.scheduledFor, t)
        messageUnits == calculateMessageUnits(request.message.length, request.message.gsm7)
        thrown(e)  == [error |-> e, id |-> 0, status |-> "", messages |-> db, queue |-> q]
    IN  IF ~validation.valid THEN thrown("invalid_phone")
        ELSE IF ~validateMessage(request.message).valid THEN thrown("invalid_message")
        ELSE IF senders = {} THEN thrown("no_sender")
        ELSE IF provider = NoProvider THEN thrown("no_provider")
        ELSE LET row == MessageRow(accountId, validation.formatted, request.message,
                                   "SMS", CHOOSE r \in senders : TRUE,
                                   IF scheduled THEN MSG_PENDING ELSE MSG_QUEUED,
                                   provider, 0, request.scheduledFor, request.metadata,
                                   messageUnits.units,
                                   PricingFor(validation.formatted, "SMS", messageUnits.units, t))
                 id  == Len(db) + 1
                 handed == IF scheduled THEN [queue |-> q, error |-> ""]
                           ELSE handOff(q, id, handoff)
             IN  [error    |-> handed.error,
                  id       |-> id,
                  status   |-> row.status,
                  messages |-> Append(db, row),
                  queue    |-> handed.queue]

\* the loop of sendBulkSMS over request.recipients from index k on;
\* providers[k] is what routeMessage selects for recipient k, handoffs[k]
\* whether the send queue takes the recipient's message
RECURSIVE BulkLoop(_, _, _, _, _)
BulkLoop(db, q, results, k, call) ==
    IF k > Len(call.request.recipients)
    THEN [messages |-> db, queue |-> q, results |-> results]
    ELSE LET recipient  == call.request.recipients[k]
             \* recipient.message || request.message
             message    == IF recipient.message.length # 0 THEN recipient.message
                           ELSE call.request.message
             validation == validatePhoneNumber(recipient.to)
             messageUnits == calculateMessageUnits(message.length, message.gsm7)
             rejected(e) == Append(results, [id |-> 0, to |-> recipient.to,
                                             status |-> "rejected", error |-> e])
             id         == Len(db) + 1
             handed     == handOff(q, id, call.handoffs[k])
             accepted   == Append(results, [id |-> id, to |-> validation.formatted,
                                            status |-> "accepted", error |-> ""])
             row        == MessageRow(call.accountId, validation.formatted, message,
                                      "BULK", call.senderId, MSG_QUEUED,
                                      call.providers[k], call.batchId,
                                      call.request.scheduledFor, call.request.metadata,
                                      messageUnits.units,
                                      PricingFor(validation.formatted, "BULK",
                                                 messageUnits.units, call.t))
         IN  IF message.length = 0
             THEN BulkLoop(db, q, rejected("No message provided"), k + 1, call)
             ELSE IF ~validation.valid
             THEN BulkLoop(db, q, rejected("invalid_phone"), k + 1, call)
             ELSE IF call.providers[k] = NoProvider
             THEN BulkLoop(db, q, rejected("No provider available"), k + 1, call)
             ELSE BulkLoop(Append(db, row), handed.queue,
                           IF handed.error = "" THEN accepted
                           ELSE Append(accepted, [id |-> 0, to |-> recipient.to,
                                                  status |-> "rejected",
                                                  error |-> handed.error]),
                           k + 1, call)

CountStatus(results, status) ==
    Cardinality({k \in 1..Len(results) : results[k].status = status})

\* totalCost += pricing.totalCost over the accepted recipients from index k on
RECURSIVE AcceptedCost(_, _, _)
AcceptedCost(db, results, k) ==
    IF k > Len(results) THEN 0
    ELSE (IF results[k].status = "accepted" THEN db[results[k].id].totalCost ELSE 0)
         + AcceptedCost(db, results, k + 1)

\* SMSService.sendBulkSMS; error is "" when the call returns
sendBulkSMS(db, q, t, batchId, accountId, request, providers, handoffs) ==
    LET senders == SMSService_resolveSenderId(accountId, request.senderId)
    IN  IF senders = {}
        THEN [error |-> "no_sender", messages |-> db, queue |-> q,
              batchId |-> batchId, totalRecipients |-> 0, accepted |-> 0,
              rejected |-> 0, results |-> <<>>, estimatedCost |-> 0]
        ELSE LET done == BulkLoop(db, q, <<>>, 1,
                                  [accountId |-> accountId, request |-> request,
                                   t |-> t, batchId |-> batchId, providers |-> providers,
                                   handoffs |-> handoffs,
                                   senderId |-> CHOOSE r \in senders : TRUE])
             IN  [error           |-> "",
                  messages        |-> done.messages,
                  queue           |-> done.queue,
                  batchId         |-> batchId,
                  totalRecipients |-> Len(request.recipients),
                  accepted        |-> CountStatus(done.results, "accepted"),
                  rejected        |-> CountStatus(done.results, "rejected"),
                  results         |-> done.results,
                  estimatedCost   |-> AcceptedCost(done.messages, done.results, 1)]

(* ------------------------ SMSController.cancelSMS ---------------------- *)
\* findFirst({ id, accountId, status: 'PENDING' })
FindScheduled(db, accountId, id) ==
    {k \in 1..Len(db) : k = id /\ db[k].accountId = accountId /\ db[k].status = MSG_PENDING}

\* the update of cancelSMS that writes QUEUED
cancelUpdate_requeue(db, id) ==
    [db EXCEPT ![id].status = MSG_QUEUED, ![id].errorMessage = "Cancelled by user"]

\* update({ where: { id }, data: { status: 'FAILED', errorMessage: 'Cancelled by user' } })
cancelUpdate(db, id) ==
    [db EXCEPT ![id].status = MSG_FAILED, ![id].errorMessage = "Cancelled by user"]

NoSmsResponse == [op |-> "none", error |-> "", id |-> 0, status |-> ""]

(* ------------------------------ call frames ---------------------------- *)
Idle == [pc |-> "idle", op |-> "none", accountId |-> <<>>, phone |-> <<>>,
         code |-> <<>>, otp |-> NoOtp, otpId |-> 0, maxAttempts |-> 0,
         expiry |-> NoExpiry, expiresAt |-> 0, startedAt |-> 0,
         pinLength |-> 0, pinType |-> "", from |-> "", sender |-> NoSender,
         message |-> NoText, smsError |-> ""]

NoResponse == [op |-> "none", accountId |-> <<>>, phone |-> <<>>, code |-> <<>>,
               startedAt |-> 0, otpId |-> 0, res |-> "none",
               remainingSeconds |-> 0]

\* what a call returns, with the request it answers and when the call started
Response(c, otpId, res) ==
    [op |-> c.op, accountId |-> c.accountId, phone |-> c.phone, code |-> c.code,
     startedAt |-> c.startedAt, otpId |-> otpId, res |-> res,
     remainingSeconds |-> 0]

Call(op, accountId, phone, code) ==
    [Idle EXCEPT !.op = op, !.accountId = accountId, !.phone = phone,
                 !.code = code, !.startedAt = now]

AllIdle == \A q \in Procs : calls[q].pc = "idle"

CanStart(p) ==
    /\ calls[p].pc = "idle"
    /\ sched = "serial" => AllIdle

\* rows the running calls may still create
Creating == {q \in Procs : calls[q].pc \in {"findLast", "invalidate", "store"}}

HasRoom == Len(otps) + Cardinality(Creating) < MaxOtps

(* -------------------- VerificationService.requestOTP ------------------- *)
RequestOTP(p, accountId, phone, request) ==
    /\ CanStart(p)
    /\ HasRoom
    /\ LET rateLimitInfo == checkRateLimit(otps, now, accountId, phone, CooldownSeconds)
       IN  IF ~rateLimitInfo.canSend
           THEN /\ ret' = [Response(Call("request", accountId, phone, <<>>), 0, "rate_limited")
                             EXCEPT !.remainingSeconds = rateLimitInfo.remainingSeconds]
                /\ calls' = calls
           ELSE /\ ret' = NoResponse
                /\ calls' = [calls EXCEPT ![p] =
                     [Call("request", accountId, phone, <<>>)
                         EXCEPT !.pc = "invalidate",
                                  !.maxAttempts = request.maxAttempts,
                                  !.expiry = request.expiry,
                                  !.pinLength = request.pinLength,
                                  !.pinType = request.pinType]]
    /\ UNCHANGED <<libVars, otps, now, okCount, outbox, sched, pinTypes, smsVars>>

(* -------------------- VerificationService.resendOTP -------------------- *)
ResendOTP(p, accountId, phone) ==
    /\ CanStart(p)
    /\ HasRoom
    /\ LET rateLimitInfo == checkRateLimit(otps, now, accountId, phone, CooldownSeconds)
       IN  IF ~rateLimitInfo.canSend
           THEN /\ ret' = [Response(Call("resend", accountId, phone, <<>>), 0, "rate_limited")
                             EXCEPT !.remainingSeconds = rateLimitInfo.remainingSeconds]
                /\ calls' = calls
           ELSE /\ ret' = NoResponse
                /\ calls' = [calls EXCEPT ![p] =
                     [Call("resend", accountId, phone, <<>>) EXCEPT !.pc = "findLast"]]
    /\ UNCHANGED <<libVars, otps, now, okCount, outbox, sched, pinTypes, smsVars>>

\* prisma.otpMessage.findFirst for the last OTP, and the locals derived from it
ResendFindLast(p) ==
    LET c == calls[p]
        last == LastOTPs(otps, c.accountId, c.phone)
    IN  /\ c.pc = "findLast"
        /\ IF last = {}
           THEN /\ ret' = Response(c, 0, "no_previous")
                /\ calls' = [calls EXCEPT ![p] = Idle]
           ELSE /\ ret' = NoResponse
                /\ \E i \in last :
                     calls' = [calls EXCEPT ![p] =
                       [c EXCEPT !.pc = "invalidate",
                                 !.maxAttempts = otps[i].maxAttempts,
                                 !.pinLength = otps[i].codeLength,
                                 !.pinType = "NUMERIC",
                                 !.from = otps[i].senderName,
                                 !.expiry = [amount |-> RoundMinutes(otps[i].expiresAt - otps[i].createdAt),
                                             duration |-> "minutes"]]]
        /\ UNCHANGED <<libVars, otps, now, okCount, outbox, sched, pinTypes, smsVars>>

\* invalidatePendingOTPs, then the synchronous code up to the next await,
\* which fixes expiresAt from the clock
Invalidate(p) ==
    LET c == calls[p]
    IN  /\ c.pc = "invalidate"
        /\ otps' = invalidatePendingOTPs(otps, c.accountId, c.phone)
        /\ calls' = [calls EXCEPT ![p] =
              [c EXCEPT !.pc = "store",
                        !.expiresAt = calculateExpiry(now, c.expiry.amount, c.expiry.duration)]]
        /\ ret' = NoResponse
        /\ UNCHANGED <<libVars, now, okCount, outbox, sched, pinTypes, smsVars>>

\* generateCode draws the code, resolveSenderId and getDefaultMessage prepare
\* the text (the default template holds no placeholder for
\* replaceTemplateVariables to fill); storeOTP creates the row, PENDING
Store(p, code) ==
    LET c == calls[p]
    IN  /\ c.pc = "store"
        /\ code \in generateCode(c.pinLength, c.pinType)
        /\ \E senderId \in resolveSenderId(c.accountId, c.from) :
              LET message == getDefaultMessage(code, c.expiry.amount,
                                               c.expiry.duration, senderId.name)
              IN  /\ otps' = storeOTP(otps, now,
                                [id          |-> CompositeId(c.accountId, c.phone),
                                 phone       |-> c.phone,
                                 codeHash    |-> hashCode(code),
                                 expiresAt   |-> c.expiresAt,
                                 maxAttempts |-> c.maxAttempts,
                                 status      |-> PENDING,
                                 pinLength   |-> c.pinLength,
                                 pinType     |-> c.pinType,
                                 senderId    |-> senderId.id,
                                 message     |-> message])
                  /\ calls' = [calls EXCEPT ![p] =
                        [c EXCEPT !.pc = "send", !.otpId = Len(otps) + 1,
                                  !.sender = senderId, !.message = message]]
        /\ okCount' = Append(okCount, 0)
        /\ pinTypes' = Append(pinTypes, c.pinType)
        /\ ret' = NoResponse
        /\ UNCHANGED <<libVars, now, outbox, sched, smsVars>>

\* SMSService.sendSMS creates the message row and queues it, or throws; the
\* send queue takes the message (what becomes of the handoff does not reach
\* the OTP record)
SendSMS(p, provider) ==
    LET c == calls[p]
        sent == sendSMS(messages, queue, now, c.accountId,
                        [to           |-> c.phone,
                         message      |-> c.message,
                         senderId     |-> c.sender.name,
                         scheduledFor |-> <<>>,
                         metadata     |-> [type |-> "otp", otpId |-> c.otpId]],
                        provider, TRUE)
    IN  /\ c.pc = "send"
        /\ messages' = sent.messages
        /\ queue' = sent.queue
        /\ IF sent.error = ""
           THEN /\ outbox' = outbox \cup {c.otpId}
                /\ ret' = Response(c, c.otpId, "sent")
                /\ calls' = [calls EXCEPT ![p] = Idle]
           ELSE /\ outbox' = outbox
                /\ ret' = NoResponse
                /\ calls' = [calls EXCEPT ![p] =
                      [c EXCEPT !.pc = "markFailedSend", !.smsError = sent.error]]
        /\ UNCHANGED <<libVars, otps, now, okCount, sched, pinTypes, batches, cancels, smsRet>>

\* catch (smsError): markAsFailed(otpId), then rethrow
SendFailed(p) ==
    LET c == calls[p]
    IN  /\ c.pc = "markFailedSend"
        /\ otps' = markAsFailed(otps, c.otpId)
        /\ ret' = Response(c, c.otpId, "send_failed")
        /\ calls' = [calls EXCEPT ![p] = Idle]
        /\ UNCHANGED <<libVars, now, okCount, outbox, sched, pinTypes, smsVars>>

(* --------------------- VerificationService.verifyOTP ------------------- *)
VerifyOTP(p, accountId, phone, code) ==
    LET active == ActiveOTPs(otps, now, accountId, phone)
    IN  /\ CanStart(p)
        /\ IF active = {}
           THEN /\ ret' = Response(Call("verify", accountId, phone, code), 0, "no_active")
                /\ calls' = calls
           ELSE /\ ret' = NoResponse
                /\ \E i \in active :
                     calls' = [calls EXCEPT ![p] =
                       [Call("verify", accountId, phone, code)
                           EXCEPT !.pc = "check", !.otp = Snapshot(otps, i)]]
        /\ UNCHANGED <<libVars, otps, now, okCount, outbox, sched, pinTypes, smsVars>>

\* the checks made on the row as it was read, up to the next store operation
VerifyCheck(p) ==
    LET c == calls[p]
    IN  /\ c.pc = "check"
        /\ calls' = [calls EXCEPT ![p] =
              [c EXCEPT !.pc =
                  IF isExpired(now, c.otp.expiresAt) THEN "markExpired"
                  ELSE IF c.otp.attempts >= c.otp.maxAttempts THEN "markFailedMax"
                  ELSE IF ~verifyCode(toUpperCase(c.code), c.otp.codeHash) THEN "increment"
                  ELSE "markVerified"]]
        /\ ret' = NoResponse
        /\ UNCHANGED <<libVars, otps, now, okCount, outbox, sched, pinTypes, smsVars>>

VerifyMarkExpired(p) ==
    LET c == calls[p]
    IN  /\ c.pc = "markExpired"
        /\ otps' = markAsExpired(otps, c.otp.id)
        /\ ret' = Response(c, c.otp.id, "expired")
        /\ calls' = [calls EXCEPT ![p] = Idle]
        /\ UNCHANGED <<libVars, now, okCount, outbox, sched, pinTypes, smsVars>>

VerifyMarkFailedMax(p) ==
    LET c == calls[p]
    IN  /\ c.pc = "markFailedMax"
        /\ otps' = markAsFailed(otps, c.otp.id)
        /\ ret' = Response(c, c.otp.id, "max_attempts")
        /\ calls' = [calls EXCEPT ![p] = Idle]
        /\ UNCHANGED <<libVars, now, okCount, outbox, sched, pinTypes, smsVars>>

VerifyIncrement(p) ==
    LET c == calls[p]
        db == incrementAttempts(otps, c.otp.id)
        newAttempts == db[c.otp.id].attempts
        attemptsLeft == c.otp.maxAttempts - newAttempts
    IN  /\ c.pc = "increment"
        /\ otps' = db
        /\ IF attemptsLeft <= 0
           THEN /\ ret' = NoResponse
                /\ calls' = [calls EXCEPT ![p] = [c EXCEPT !.pc = "markFailedInc"]]
           ELSE /\ ret' = Response(c, c.otp.id, "invalid")
                /\ calls' = [calls EXCEPT ![p] = Idle]
        /\ UNCHANGED <<libVars, now, okCount, outbox, sched, pinTypes, smsVars>>

VerifyMarkFailedInc(p) ==
    LET c == calls[p]
    IN  /\ c.pc = "markFailedInc"
        /\ otps' = markAsFailed(otps, c.otp.id)
        /\ ret' = Response(c, c.otp.id, "invalid_max")
        /\ calls' = [calls EXCEPT ![p] = Idle]
        /\ UNCHANGED <<libVars, now, okCount, outbox, sched, pinTypes, smsVars>>

VerifyMarkVerified(p) ==
    LET c == calls[p]
    IN  /\ c.pc = "markVerified"
        /\ otps' = markAsVerified(otps, c.otp.id)
        /\ okCount' = [okCount EXCEPT ![c.otp.id] = @ + 1]
        /\ ret' = Response(c, c.otp.id, "verified")
        /\ calls' = [calls EXCEPT ![p] = Idle]
        /\ UNCHANGED <<libVars, now, outbox, sched, pinTypes, smsVars>>

(* ------------- VerificationStorageService.cleanupExpiredOTPs ----------- *)
CleanupExpiredOTPs ==
    /\ sched = "serial" => AllIdle
    /\ otps' = cleanupExpired(otps, now)
    /\ otps' # otps
    /\ ret' = NoResponse
    /\ UNCHANGED <<libVars, now, calls, okCount, outbox, sched, pinTypes, smsVars>>

(* --------------------------------- clock ------------------------------- *)
Tick(d) ==
    /\ now + d <= MaxNow
    /\ now' = now + d
    /\ ret' = NoResponse
    /\ smsRet' = NoSmsResponse
    /\ UNCHANGED <<libVars, otps, calls, okCount, outbox, sched, pinTypes,
                   messages, queue, batches, cancels>>

(* ------------------------------- SMS API ------------------------------- *)
SmsRequests ==
    [to : SmsPhones, message : SmsTexts, senderId : {""},
     scheduledFor : Schedules, metadata : {NoMetadata}]

\* a recipient of a bulk request; NoText: the recipient has no own message
BulkRecipients ==
    {[to |-> GhPhone, message |-> HelloText],
     [to |-> GhPhone, message |-> NoText],
     [to |-> LocalPhone, message |-> HelloText]}

RecipientLists == UNION {[1..n -> BulkRecipients] : n \in RecipientCounts}

\* request.message is NoText when the request has no default message
BulkRequests ==
    [recipients : RecipientLists, message : {NoText, HelloText}, senderId : {""},
     scheduledFor : Schedules, metadata : {NoMetadata}]

\* one call of SMSService.sendSMS through POST /sms/send
SendSingleSMS(accountId, request, provider, handoff) ==
    LET sent == sendSMS(messages, queue, now, accountId, request, provider, handoff)
    IN  /\ sched = "sms"
        /\ Len(sent.messages) <= MaxMessages
        /\ messages' = sent.messages
        /\ queue' = sent.queue
        /\ smsRet' = [op |-> "sendSMS", error |-> sent.error, id |-> sent.id,
                      status |-> sent.status, accountId |-> accountId,
                      request |-> request, provider |-> provider,
                      handoff |-> handoff]
        /\ UNCHANGED <<libVars, otps, now, calls, ret, okCount, outbox, sched, pinTypes,
                       batches, cancels>>

\* one call of SMSService.sendBulkSMS; batchId = nanoid(16) is a fresh id
SendBulkSMS(accountId, request, providers, handoffs) ==
    LET done == sendBulkSMS(messages, queue, now, batches + 1, accountId, request,
                            providers, handoffs)
    IN  /\ sched = "sms"
        /\ batches < MaxBatches
        /\ Len(done.messages) <= MaxMessages
        /\ messages' = done.messages
        /\ queue' = done.queue
        /\ batches' = batches + 1
        /\ smsRet' = IF done.error # ""
                     THEN [op |-> "sendBulkSMS", error |-> done.error,
                           accountId |-> accountId]
                     ELSE [op |-> "sendBulkSMS", error |-> "",
                           accountId |-> accountId, request |-> request,
                           providers |-> providers, handoffs |-> handoffs,
                           batchId |-> done.batchId,
                           totalRecipients |-> done.totalRecipients,
                           accepted |-> done.accepted, rejected |-> done.rejected,
                           results |-> done.results]
        /\ UNCHANGED <<libVars, otps, now, calls, ret, okCount, outbox, sched, pinTypes, cancels>>

\* cancelSMS, first step: the findFirst; without a row it answers notFound
CancelFind(p, accountId, id) ==
    /\ sched = "sms"
    /\ cancels[p] = 0
    /\ IF FindScheduled(messages, accountId, id) = {}
       THEN /\ smsRet' = [op |-> "cancelSMS", error |-> "not_found", id |-> id,
                          accountId |-> accountId]
            /\ cancels' = cancels
       ELSE /\ smsRet' = NoSmsResponse
            /\ cancels' = [cancels EXCEPT ![p] = id]
    /\ UNCHANGED <<libVars, otps, now, calls, ret, okCount, outbox, sched, pinTypes,
                   messages, queue, batches>>

\* cancelSMS, second step: the update by id, then the success response
CancelUpdate(p) ==
    /\ sched = "sms"
    /\ cancels[p] # 0
    /\ messages' = cancelUpdate(messages, cancels[p])
    /\ cancels' = [cancels EXCEPT ![p] = 0]
    /\ smsRet' = [op |-> "cancelSMS", error |-> "", id |-> cancels[p],
                  accountId |-> messages[cancels[p]].accountId]
    /\ UNCHANGED <<libVars, otps, now, calls, ret, okCount, outbox, sched, pinTypes,
                   queue, batches>>

(* ------------------- send queue and delivery reports ------------------- *)
\* The collaborators that move a message on after its creation are not part
\* of the sources (queueMessageForSending only logs): the send queue takes a
\* scheduled message when it is due and sends what is queued, and delivery
\* reports end a sent message. They only move a message forward.
Dispatch(id) ==
    /\ sched = "sms"
    /\ id \in 1..Len(messages)
    /\ \/ /\ messages[id].status = MSG_PENDING
          /\ ~isScheduled(messages[id].scheduledFor, now)
          /\ messages' = [messages EXCEPT ![id].status = MSG_QUEUED]
          /\ queue' = queue \cup {id}
       \/ /\ messages[id].status = MSG_QUEUED
          /\ messages' = [messages EXCEPT ![id].status = MSG_SENT]
          /\ queue' = queue \ {id}
    /\ smsRet' = NoSmsResponse
    /\ UNCHANGED <<libVars, otps, now, calls, ret, okCount, outbox, sched, pinTypes,
                   batches, cancels>>

DeliveryStatus(id, status) ==
    /\ sched = "sms"
    /\ id \in 1..Len(messages)
    /\ messages[id].status = MSG_SENT
    /\ messages' = [messages EXCEPT ![id].status = status]
    /\ smsRet' = NoSmsResponse
    /\ UNCHANGED <<libVars, otps, now, calls, ret, okCount, outbox, sched, pinTypes,
                   queue, batches, cancels>>

(* ----------------------------- specification --------------------------- *)
InitStore ==
    /\ otps = <<>>
    /\ now = 0
    /\ calls = [p \in Procs |-> Idle]
    /\ ret = NoResponse
    /\ okCount = <<>>
    /\ outbox = {}
    /\ pinTypes = <<>>
    /\ messages = <<>>
    /\ queue = {}
    /\ batches = 0
    /\ cancels = [p \in Procs |-> 0]
    /\ smsRet = NoSmsResponse

\* nothing of the routing, rate limiting and validation functions is in use
NoValue == [kind |-> "none"]

InitLib ==
    /\ providerTable = <<>>
    /\ rateLimitStore = <<>>
    /\ passed = <<>>
    /\ failures = <<>>
    /\ accountTable = <<>>
    /\ billing = <<>>
    /\ arg = NoValue
    /\ result = NoValue

Init == InitStore /\ InitLib /\ sched = "interleaved"

InitSerial == InitStore /\ InitLib /\ sched = "serial"

Step(procs, accounts) ==
    \/ \E p \in procs, a \in accounts, ph \in Phones, request \in Requests :
          RequestOTP(p, a, ph, request)
    \/ \E p \in procs, a \in accounts, ph \in Phones : ResendOTP(p, a, ph)
    \/ \E p \in procs : ResendFindLast(p)
    \/ \E p \in procs : Invalidate(p)
    \/ \E p \in procs, code \in GenCodes : Store(p, code)
    \/ \E p \in procs, provider \in ProviderChoices : SendSMS(p, provider)
    \/ \E p \in procs : SendFailed(p)
    \/ \E p \in procs, a \in accounts, ph \in Phones, code \in SubmittedCodes :
          VerifyOTP(p, a, ph, code)
    \/ \E p \in procs : VerifyCheck(p)
    \/ \E p \in procs : VerifyMarkExpired(p)
    \/ \E p \in procs : VerifyIncrement(p)
    \/ \E p \in procs : VerifyMarkFailedInc(p)
    \/ \E p \in procs : VerifyMarkVerified(p)
    \/ CleanupExpiredOTPs
    \/ \E d \in TickSteps : Tick(d)

\* the attempts >= maxAttempts check on read is a defence against calls that
\* raced past the limit: only interleaved calls reach it
Next ==
    \/ Step(Procs, RaceAccounts)
    \/ \E p \in Procs : VerifyMarkFailedMax(p)

NextSerial == Step(SerialProcs, Accounts)

\* calls of concurrent requests, interleaved at their store operations
Spec == Init /\ [][Next]_vars

\* calls made one after the other
SpecSerial == InitSerial /\ [][NextSerial]_vars

\* calls made one after the other by two accounts, one of whose id is the
\* other's followed by '_eu'
SpecUnderscore == InitSerial /\ [][Step(SerialProcs, UnderscoreAccounts)]_vars

\* requests and resends with nobody verifying, the clock moving on between
\* the calls
NextSweep ==
    \/ \E a \in Accounts, ph \in Phones, request \in Requests :
          RequestOTP("t1", a, ph, request)
    \/ \E a \in Accounts, ph \in Phones : ResendOTP("t1", a, ph)
    \/ ResendFindLast("t1")
    \/ Invalidate("t1")
    \/ \E code \in GenCodes : Store("t1", code)
    \/ \E provider \in ProviderChoices : SendSMS("t1", provider)
    \/ SendFailed("t1")
    \/ CleanupExpiredOTPs
    \/ \E d \in TickSteps : AllIdle /\ Tick(d)

\* the cron job calls the cleanup endpoint again and again
SpecSweep == Init /\ [][NextSweep]_vars /\ WF_vars(CleanupExpiredOTPs)

InitSMS == InitStore /\ InitLib /\ sched = "sms"

\* the send queue takes every message of a bulk call
AllHandedOff(n) == [k \in 1..n |-> TRUE]

\* the requests that pass the validations of sendSMS
ValidRequests ==
    {r \in SmsRequests : validatePhoneNumber(r.to).valid /\ validateMessage(r.message).valid}

NextSMS ==
    \/ \E a \in Accounts, request \in ValidRequests, provider \in ProviderChoices :
          SendSingleSMS(a, request, provider, TRUE)
    \/ \E p \in Procs, a \in Accounts, id \in 1..MaxMessages : CancelFind(p, a, id)
    \/ \E p \in Procs : CancelUpdate(p)
    \/ \E id \in 1..MaxMessages : Dispatch(id)
    \/ \E id \in 1..MaxMessages, status \in MsgTerminal : DeliveryStatus(id, status)
    \/ \E d \in TickSteps : Tick(d)

\* single sends of valid requests, cancellations that interleave at their
\* two store operations, and the progress of the messages
SpecSMS == InitSMS /\ [][NextSMS]_vars

NextSendSMS ==
    \/ \E a \in Accounts, request \in SmsRequests, provider \in ProviderChoices :
          SendSingleSMS(a, request, provider, TRUE)
    \/ \E d \in TickSteps : Tick(d)

\* calls of sendSMS alone, as time passes
SpecSendSMS == InitSMS /\ [][NextSendSMS]_vars

\* the requests for immediate delivery
Immediate(requests) == {r \in requests : r.scheduledFor = <<>>}

NextCost ==
    \/ \E a \in RaceAccounts, request \in Immediate(ValidRequests), provider \in ProviderChoices :
          SendSingleSMS(a, request, provider, TRUE)
    \/ \E a \in RaceAccounts, request \in Immediate(BulkRequests) :
          \E providers \in [1..Len(request.recipients) -> ProviderChoices] :
             SendBulkSMS(a, request, providers, AllHandedOff(Len(request.recipients)))

\* immediate single sends of valid requests and immediate bulk sends of an
\* account that has a sender, for the cost of the messages they create
SpecCost == InitSMS /\ [][NextCost]_vars

\* the requests that carry the short text
WithText(requests, text) == {r \in requests : r.message = text}

NextHandoff ==
    \/ \E a \in RaceAccounts, request \in WithText(Immediate(ValidRequests), HelloText) :
          \E provider \in ProviderChoices, handoff \in BOOLEAN :
             SendSingleSMS(a, request, provider, handoff)
    \/ \E a \in RaceAccounts, request \in WithText(Immediate(BulkRequests), HelloText) :
          \E providers \in [1..Len(request.recipients) -> ProviderChoices] :
             \E handoffs \in [1..Len(request.recipients) -> BOOLEAN] :
                SendBulkSMS(a, request, providers, handoffs)

\* immediate single and bulk sends whose handoff to the send queue succeeds
\* or fails
SpecHandoff == InitSMS /\ [][NextHandoff]_vars

NextBulkSMS ==
    \E a \in Accounts, request \in BulkRequests :
       \E providers \in [1..Len(request.recipients) -> ProviderChoices] :
          SendBulkSMS(a, request, providers, AllHandedOff(Len(request.recipients)))

\* calls of sendBulkSMS alone
SpecBulkSMS == InitSMS /\ [][NextBulkSMS]_vars

(* ------------------------------- billing ------------------------------- *)
\* the balances an account may start with, in thousandths of a cedi
InitialWallets == {0, 70}
InitialCredits == {0, 35}

\* the pricing the routes estimate with: getPricing(country, undefined, ...)
EstimateFor(to, messageType, units, t) ==
    CHOOSE pricing \in getPricing(PricingRates, t, getCountryFromPhone(to), "",
                                  messageType, units, TRUE) : TRUE

\* getCostEstimate of POST /sms/send
sendEstimate(request, t) ==
    EstimateFor(validatePhoneNumber(request.to).formatted, "SMS",
                calculateMessageUnits(request.message.length, request.message.gsm7).units,
                t).totalCost

\* getCostEstimate of POST /sms/bulk/send from recipient k on: the recipients
\* with a valid number are priced
RECURSIVE bulkEstimate(_, _, _)
bulkEstimate(request, k, t) ==
    IF k > Len(request.recipients) THEN 0
    ELSE LET recipient == request.recipients[k]
             message   == IF recipient.message.length # 0 THEN recipient.message
                          ELSE request.message
             units     == calculateMessageUnits(message.length, message.gsm7).units
             validation == validatePhoneNumber(recipient.to)
         IN  (IF validation.valid
              THEN EstimateFor(validation.formatted, "BULK", units, t).totalCost
              ELSE 0) + bulkEstimate(request, k + 1, t)

\* c.get('actualCost') || estimatedCost without the fallback
chargedAmount_actual(actualCost, estimatedCost) == actualCost

\* c.get('actualCost') as number || estimatedCost: 0 is falsy
chargedAmount(actualCost, estimatedCost) ==
    IF actualCost # 0 THEN actualCost ELSE estimatedCost

\* deductAccountBalance: credits first, then the wallet
Debits(account, amount) ==
    IF account.creditBalance >= amount
    THEN [creditDebit |-> amount, walletDebit |-> 0]
    ELSE [creditDebit |-> account.creditBalance,
          walletDebit |-> amount - account.creditBalance]

NoDebits == [creditDebit |-> 0, walletDebit |-> 0]

\* a request between checkBalance and the end of deductBalance
NoBill == [pc |-> "idle", kind |-> "none", accountId |-> <<>>, request |-> NoValue,
           estimatedCost |-> 0, actualCost |-> 0, status |-> 0, debits |-> NoDebits,
           debited |-> 0]

\* checkBalance: the estimate, the read of the balances and the comparison;
\* 402 ends the request
CheckBalance(p, accountId, kind, request) ==
    LET estimatedCost == IF kind = "send" THEN sendEstimate(request, now)
                         ELSE bulkEstimate(request, 1, now)
        account       == accountTable[accountId]
        totalBalance  == account.walletBalance + account.creditBalance
        bill          == [NoBill EXCEPT !.kind = kind, !.accountId = accountId,
                                        !.request = request]
    IN  /\ sched = "billing"
        /\ billing[p].pc \in {"idle", "done"}
        /\ billing' = [billing EXCEPT ![p] =
              IF totalBalance < estimatedCost
              THEN [bill EXCEPT !.pc = "done", !.status = 402,
                                !.estimatedCost = estimatedCost]
              ELSE [bill EXCEPT !.pc = "handler", !.estimatedCost = estimatedCost]]
        /\ UNCHANGED <<otps, now, calls, ret, okCount, outbox, sched, pinTypes, smsVars,
                       providerTable, rateLimitStore, passed, arg, result, failures,
                       accountTable>>

\* after the handler deductBalance goes on to deductAccountBalance when it
\* has an estimate and the response is 2xx
AfterHandler(bill, status, actualCost) ==
    [bill EXCEPT !.pc = IF bill.estimatedCost # 0 /\ status >= 200 /\ status < 300
                        THEN "deduct" ELSE "done",
                 !.status = status, !.actualCost = actualCost]

\* SMSController.sendSMS: 201 with actualCost = result.cost, or 400
HandleSendSMS(p, provider) ==
    LET bill == billing[p]
        sent == sendSMS(messages, queue, now, bill.accountId, bill.request, provider, TRUE)
    IN  /\ bill.pc = "handler"
        /\ bill.kind = "send"
        /\ Len(sent.messages) <= MaxMessages
        /\ messages' = sent.messages
        /\ queue' = sent.queue
        /\ billing' = [billing EXCEPT ![p] =
              IF sent.error # "" THEN AfterHandler(bill, 400, 0)
              ELSE AfterHandler(bill, 201, sent.messages[sent.id].totalCost)]
        /\ UNCHANGED <<otps, now, calls, ret, okCount, outbox, sched, pinTypes, batches,
                       cancels, smsRet, providerTable, rateLimitStore, passed, arg,
                       result, failures, accountTable>>

\* BulkSMSController.sendBulkSMS: 201 with actualCost = result.estimatedCost,
\* or 400
HandleSendBulkSMS(p, providers) ==
    LET bill == billing[p]
        done == sendBulkSMS(messages, queue, now, batches + 1, bill.accountId, bill.request,
                            providers, AllHandedOff(Len(bill.request.recipients)))
    IN  /\ bill.pc = "handler"
        /\ bill.kind = "bulk"
        /\ Len(bill.request.recipients) = Len(providers)
        /\ batches < MaxBatches
        /\ Len(done.messages) <= MaxMessages
        /\ messages' = done.messages
        /\ queue' = done.queue
        /\ batches' = batches + 1
        /\ billing' = [billing EXCEPT ![p] =
              IF done.error # "" THEN AfterHandler(bill, 400, 0)
              ELSE AfterHandler(bill, 201, done.estimatedCost)]
        /\ UNCHANGED <<otps, now, calls, ret, okCount, outbox, sched, pinTypes,
                       cancels, smsRet, providerTable, rateLimitStore, passed, arg,
                       result, failures, accountTable>>

\* deductAccountBalance, first query: the read of the balances and the
\* debits computed from them
DeductRead(p) ==
    LET bill   == billing[p]
        amount == chargedAmount(bill.actualCost, bill.estimatedCost)
    IN  /\ bill.pc = "deduct"
        /\ billing' = [billing EXCEPT ![p] =
              [bill EXCEPT !.pc = "update", !.debited = amount,
                           !.debits = Debits(accountTable[bill.accountId], amount)]]
        /\ UNCHANGED <<otps, now, calls, ret, okCount, outbox, sched, pinTypes, smsVars,
                       providerTable, rateLimitStore, passed, arg, result, failures,
                       accountTable>>

\* deductAccountBalance, second query: the update that decrements the balances
DeductUpdate(p) ==
    LET bill == billing[p]
    IN  /\ bill.pc = "update"
        /\ accountTable' = [accountTable EXCEPT ![bill.accountId] =
              [walletBalance |-> @.walletBalance - bill.debits.walletDebit,
               creditBalance |-> @.creditBalance - bill.debits.creditDebit]]
        /\ billing' = [billing EXCEPT ![p].pc = "done"]
        /\ UNCHANGED <<otps, now, calls, ret, okCount, outbox, sched, pinTypes, smsVars,
                       providerTable, rateLimitStore, passed, arg, result, failures>>

InitBilling ==
    /\ InitStore
    /\ sched = "billing"
    /\ providerTable = <<>>
    /\ rateLimitStore = <<>>
    /\ passed = <<>>
    /\ failures = <<>>
    /\ arg = NoValue
    /\ result = NoValue
    /\ accountTable \in [RaceAccounts -> [walletBalance : InitialWallets,
                                          creditBalance : InitialCredits]]
    /\ billing = [p \in Procs |-> NoBill]

\* the bodies sent to the two routes: the short text, for delivery at once,
\* to valid numbers
BilledSends == WithText(Immediate(ValidRequests), HelloText)
BilledBulkSends ==
    {r \in WithText(Immediate(BulkRequests), HelloText) :
        \A k \in 1..Len(r.recipients) : r.recipients[k] = [to |-> GhPhone, message |-> NoText]}

NextBilling ==
    \/ \E p \in Procs, a \in RaceAccounts, request \in BilledSends :
          CheckBalance(p, a, "send", request)
    \/ \E p \in Procs, a \in RaceAccounts, request \in BilledBulkSends :
          CheckBalance(p, a, "bulk", request)
    \/ \E p \in Procs, provider \in ProviderChoices : HandleSendSMS(p, provider)
    \/ \E p \in Procs, n \in RecipientCounts :
          \E providers \in [1..n -> ProviderChoices] : HandleSendBulkSMS(p, providers)
    \/ \E p \in Procs : DeductRead(p)
    \/ \E p \in Procs : DeductUpdate(p)

\* requests through POST /sms/send and POST /sms/bulk/send of one account,
\* interleaved at the queries of the billing middleware and at the handler
SpecBilling == InitBilling /\ [][NextBilling]_vars

TypeOK ==
    /\ now \in 0..MaxNow
    /\ Len(otps) <= MaxOtps
    /\ \A i \in Ids(otps) : otps[i].status \in OTPStatus
    /\ Len(okCount) = Len(otps)

(* ------------------------ functions applied alone ---------------------- *)
\* the state in which nothing but arg and result is in use
InitFunction(service) ==
    /\ InitStore
    /\ sched = service
    /\ providerTable = <<>>
    /\ rateLimitStore = <<>>
    /\ passed = <<>>
    /\ failures = <<>>
    /\ accountTable = <<>>
    /\ billing = <<>>
    /\ result = NoValue

\* arg and result are the only variables a function application changes
Apply(service, value) ==
    /\ sched = service
    /\ result = NoValue
    /\ result' = value
    /\ UNCHANGED <<otps, now, calls, ret, okCount, outbox, sched, pinTypes, smsVars,
                   providerTable, rateLimitStore, passed, arg, failures, billVars>>

TextInputs == [kind : {"text"}, length : 0..MaxTextLength, gsm7 : BOOLEAN]

InitUnits == InitFunction("units") /\ arg \in TextInputs

CalculateMessageUnits == Apply("units", calculateMessageUnits(arg.length, arg.gsm7))

\* calculateMessageUnits applied to texts of every length and both encodings
SpecUnits == InitUnits /\ [][CalculateMessageUnits]_vars

\* the pricingRate rows a table may hold: two network rates of different
\* effectiveFrom, a country-wide rate, a rate that ends, a rate switched off
RateUniverse ==
    {Rate("mtn", TRUE, 0, <<>>, 30), Rate("mtn", TRUE, 30000, <<>>, 28),
     Rate("", TRUE, 0, <<>>, 32), Rate("mtn", TRUE, 0, <<30000>>, 27),
     Rate("vodafone", FALSE, 0, <<>>, 25)}

MaxUnits == 2
PricingTimes == {0, 30000, 60000}

PricingInputs ==
    [kind : {"pricing"}, rates : SUBSET RateUniverse, t : PricingTimes,
     country : {"GH", "NG"}, network : {"", "mtn", "vodafone"},
     messageType : {"SMS", "BULK"}, units : 0..MaxUnits, storeOk : BOOLEAN]

InitPricing == InitFunction("pricing") /\ arg \in PricingInputs

\* one call of getPricing; "thrown" when it returns nothing
GetPricing ==
    LET may == getPricing(arg.rates, arg.t, arg.country, arg.network,
                          arg.messageType, arg.units, arg.storeOk)
    IN  IF may = {} THEN Apply("pricing", [kind |-> "thrown"])
        ELSE \E pricing \in may : Apply("pricing", pricing)

\* getPricing applied to rate tables, destinations, units and moments
SpecPricing == InitPricing /\ [][GetPricing]_vars

(* ----------------------------- rate limiting -------------------------- *)
RateLimitWindowMs == 60000
VerifyMaxRequests == 10
SmsMaxRequests == 100

\* the options of the limiter of the verify routes and of smsRateLimit
verifyRateLimit == [name |-> "verify", windowMs |-> RateLimitWindowMs, max |-> VerifyMaxRequests]
smsRateLimit == [name |-> "sms", windowMs |-> RateLimitWindowMs, max |-> SmsMaxRequests]
Limiters == {verifyRateLimit, smsRateLimit}

\* the API keys of the clients (apiKeyAuth runs before either limiter)
ApiKeys == {"a1"}

\* the default keyGenerator for a request that carries an API key
keyGenerator(apiKey) == <<"api_key", apiKey>>

\* store with store[key] set to entry
WithEntry(store, key, entry) ==
    [k \in DOMAIN store \cup {key} |-> IF k = key THEN entry ELSE store[k]]

\* the middleware of rateLimit(options) up to next(): the store it leaves,
\* whether it began a new entry, and whether the request goes on to the handler
rateLimit(store, t, key, options) ==
    LET fresh == key \notin DOMAIN store \/ store[key].resetAt < t
        entry == IF fresh THEN [count |-> 0, resetAt |-> t + options.windowMs] ELSE store[key]
    IN  IF entry.count >= options.max
        THEN [store |-> WithEntry(store, key, entry), fresh |-> fresh, next |-> FALSE]
        ELSE [store |-> WithEntry(store, key, [entry EXCEPT !.count = @ + 1]),
              fresh |-> fresh, next |-> TRUE]

NonePassed == [verify |-> 0, sms |-> 0]

\* one request through a limiter; passed counts the requests each limiter has
\* let through since the entry of the key began
RateLimit(limiter, apiKey) ==
    /\ sched = "limiter"
    /\ LET key    == keyGenerator(apiKey)
           out    == rateLimit(rateLimitStore, now, key, limiter)
           before == IF out.fresh \/ key \notin DOMAIN passed THEN NonePassed ELSE passed[key]
           after  == IF out.next THEN [before EXCEPT ![limiter.name] = @ + 1] ELSE before
       IN  /\ rateLimitStore' = out.store
           /\ passed' = WithEntry(passed, key, after)
           /\ result' = [kind |-> "limited", limiter |-> limiter.name, key |-> key,
                         status |-> IF out.next THEN 200 ELSE 429]
    /\ UNCHANGED <<otps, now, calls, ret, okCount, outbox, sched, pinTypes, smsVars,
                   providerTable, arg, failures, billVars>>

\* the setInterval callback that deletes the entries whose window is over
CleanupRateLimitStore ==
    /\ sched = "limiter"
    /\ LET kept == {k \in DOMAIN rateLimitStore : ~(rateLimitStore[k].resetAt < now)}
       IN  /\ rateLimitStore' = [k \in kept |-> rateLimitStore[k]]
           /\ passed' = [k \in kept |-> passed[k]]
    /\ UNCHANGED <<otps, now, calls, ret, okCount, outbox, sched, pinTypes, smsVars,
                   providerTable, arg, result, failures, billVars>>

InitLimiter == InitStore /\ InitLib /\ sched = "limiter"

NextLimiter ==
    \/ \E limiter \in Limiters, apiKey \in ApiKeys : RateLimit(limiter, apiKey)
    \/ CleanupRateLimitStore
    \/ \E d \in TickSteps : Tick(d)

\* requests of one client on the verify and the SMS routes as time passes
SpecLimiter == InitLimiter /\ [][NextLimiter]_vars

(* ----------------------------- phone numbers --------------------------- *)
\* digits between the start and the end of a number typed in
MaxDigits == 16

\* the table "Auto-Normalization for All African Countries" of the verify
\* module's README: a local number and the number it stands for
LocalExamples ==
    {[country |-> "Ghana",
      local |-> <<"0", "2", "4", "4", "1", "2", "3", "4", "5", "6">>,
      e164  |-> <<"+", "2", "3", "3", "2", "4", "4", "1", "2", "3", "4", "5", "6">>],
     [country |-> "Nigeria",
      local |-> <<"0", "8", "0", "3", "1", "2", "3", "4", "5", "6", "7">>,
      e164  |-> <<"+", "2", "3", "4", "8", "0", "3", "1", "2", "3", "4", "5", "6", "7">>],
     [country |-> "Kenya",
      local |-> <<"0", "7", "0", "1", "1", "2", "3", "4", "5", "6">>,
      e164  |-> <<"+", "2", "5", "4", "7", "0", "1", "1", "2", "3", "4", "5", "6">>],
     [country |-> "South Africa",
      local |-> <<"0", "8", "2", "1", "2", "3", "4", "5", "6", "7">>,
      e164  |-> <<"+", "2", "7", "8", "2", "1", "2", "3", "4", "5", "6", "7">>],
     [country |-> "Egypt",
      local |-> <<"0", "1", "0", "1", "2", "3", "4", "5", "6", "7", "8">>,
      e164  |-> <<"+", "2", "0", "1", "0", "1", "2", "3", "4", "5", "6", "7", "8">>],
     [country |-> "Morocco",
      local |-> <<"0", "6", "1", "2", "3", "4", "5", "6", "7", "8">>,
      e164  |-> <<"+", "2", "1", "2", "6", "1", "2", "3", "4", "5", "6", "7", "8">>],
     [country |-> "Rwanda",
      local |-> <<"0", "7", "8", "8", "1", "2", "3", "4", "5", "6">>,
      e164  |-> <<"+", "2", "5", "0", "7", "8", "8", "1", "2", "3", "4", "5", "6">>],
     [country |-> "Tanzania",
      local |-> <<"0", "7", "5", "4", "1", "2", "3", "4", "5", "6">>,
      e164  |-> <<"+", "2", "5", "5", "7", "5", "4", "1", "2", "3", "4", "5", "6">>]}

\* how a number typed in may start and end
PhoneStarts ==
    {<<>>, <<"+">>, <<"0">>, <<" ">>, <<"(">>, <<"+", "+">>, <<"0", "0">>,
     <<"+", "2", "3", "3">>, <<"2", "3", "3">>, <<"2", "5", "4">>, <<"2", "0">>}
PhoneEnds == {<<>>, <<"+">>, <<"-", "5">>}

Fill(n) == [i \in 1..n |-> "1"]

PhoneInputs ==
    {start \o Fill(n) \o end : start \in PhoneStarts, n \in 0..MaxDigits, end \in PhoneEnds}
        \cup {e.local : e \in LocalExamples}

InitPhone == InitFunction("phone") /\ arg \in [kind : {"phone"}, value : PhoneInputs]

\* a function of phone numbers applied to the input or to an earlier result
Applied(from, kind, input, value) ==
    /\ sched = "phone"
    /\ result.kind = from
    /\ result' = [kind |-> kind, input |-> input, value |-> value]
    /\ UNCHANGED <<otps, now, calls, ret, okCount, outbox, sched, pinTypes, smsVars,
                   providerTable, rateLimitStore, passed, arg, failures, billVars>>

NormalizePhoneNumber ==
    Applied("none", "normalized", arg.value, normalizePhoneNumber(arg.value))

\* the normalized number normalized once more
NormalizeAgain ==
    Applied("normalized", "renormalized", result.value, normalizePhoneNumber(result.value))

ValidatePhoneNumber ==
    Applied("none", "validated", arg.value, validatePhoneNumber(arg.value))

\* the formatted number validated once more
ValidateFormatted ==
    Applied("validated", "revalidated", result.value,
            validatePhoneNumber(result.value.formatted))

NextPhone ==
    \/ NormalizePhoneNumber
    \/ NormalizeAgain
    \/ ValidatePhoneNumber
    \/ ValidateFormatted

\* normalizePhoneNumber and validatePhoneNumber applied to numbers as they
\* are typed in, and to their own results
SpecPhone == InitPhone /\ [][NextPhone]_vars

(* ------------------------------ SMS routing ---------------------------- *)
\* failures recorded for one provider
MaxErrorCount == 12

GhVodafonePhone == <<"+", "2", "3", "3", "2", "0", "1", "2", "3", "4", "5", "6", "7">>
RoutePhones == {GhPhone, GhVodafonePhone}

Provider(type, status, countries, networks, priority, successRate, avgLatency) ==
    [type |-> type, status |-> status, supportedCountries |-> countries,
     supportedNetworks |-> networks, priority |-> priority, successRate |-> successRate,
     avgLatency |-> avgLatency, errorCount |-> 0]

\* the provider tables at the start: hubtel is switched on or off
ProviderTables ==
    {[hubtel  |-> Provider("SMS", status, {"GH", "NG"}, {"mtn"}, 2, 90, 300),
      mnotify |-> Provider("SMS", "ACTIVE", {"GH"}, {"vodafone"}, 1, 95, 200),
      wigal   |-> Provider("SMS", "INACTIVE", {"GH", "KE"}, {"mtn", "safaricom"}, 3, 99, 100),
      mailer  |-> Provider("EMAIL", "ACTIVE", {"KE"}, {}, 1, 99, 100)] :
        status \in {"ACTIVE", "INACTIVE"}}

Criteria ==
    [country : {"GH", "NG", "KE"}, network : {"", "mtn", "vodafone"},
     messageType : {"SMS"}, priority : {"", "cost", "speed", "reliability"}]

InitRouter ==
    /\ InitStore
    /\ sched = "router"
    /\ providerTable \in ProviderTables
    /\ failures = [id \in DOMAIN providerTable |-> [sinceSuccess |-> 0, ever |-> FALSE]]
    /\ rateLimitStore = <<>>
    /\ passed = <<>>
    /\ accountTable = <<>>
    /\ billing = <<>>
    /\ arg = NoValue
    /\ result = NoValue

\* a selection leaves the tables alone and hands back a provider id, or ""
Selected(criteria, may) ==
    /\ sched = "router"
    /\ arg' = [kind |-> "criteria", criteria |-> criteria]
    /\ \/ may = {} /\ result' = NoSelection
       \/ \E id \in may : result' = [kind |-> "provider", id |-> id]
    /\ UNCHANGED <<otps, now, calls, ret, okCount, outbox, sched, pinTypes, smsVars,
                   providerTable, rateLimitStore, passed, failures, billVars>>

SelectProvider(criteria) == Selected(criteria, selectProvider(providerTable, criteria))

RouteMessage(to, priority) ==
    Selected([country     |-> getCountryFromPhone(to),
              network     |-> detectNetworkFromPhone(to),
              messageType |-> "SMS",
              priority    |-> priority],
             routeMessage(providerTable, to, "SMS", priority))

\* the outcome of a delivery through a provider that is switched on
UpdateProviderStats(providerId, success) ==
    /\ sched = "router"
    /\ providerId \in DOMAIN providerTable
    /\ providerTable[providerId].status = "ACTIVE"
    /\ providerTable[providerId].type = "SMS"
    /\ success \/ providerTable[providerId].errorCount < MaxErrorCount
    /\ providerTable' = updateProviderStats(providerTable, providerId, success)
    /\ failures' = [failures EXCEPT ![providerId] =
                        IF success THEN [@ EXCEPT !.sinceSuccess = 0]
                        ELSE [sinceSuccess |-> @.sinceSuccess + 1, ever |-> TRUE]]
    /\ arg' = NoValue
    /\ result' = NoValue
    /\ UNCHANGED <<otps, now, calls, ret, okCount, outbox, sched, pinTypes, smsVars,
                   rateLimitStore, passed, billVars>>

NextRouter ==
    \/ \E criteria \in Criteria : SelectProvider(criteria)
    \/ \E to \in RoutePhones, priority \in {"", "speed"} : RouteMessage(to, priority)
    \/ \E id \in {"hubtel", "mnotify", "wigal", "mailer"}, success \in BOOLEAN :
          UpdateProviderStats(id, success)

\* provider selections and routings, with the outcomes of deliveries
\* recorded in between
SpecRouter == InitRouter /\ [][NextRouter]_vars

(* ------------------------------- properties ---------------------------- *)
Terminal == {VERIFIED, FAILED, EXPIRED}

PairIds(accountId, phone) ==
    {i \in Ids(otps) : otps[i].accountId = accountId /\ otps[i].recipient = phone}

PendingIds(accountId, phone) ==
    {i \in PairIds(accountId, phone) : otps[i].status = PENDING}

Exhausted(i) == otps[i].attempts >= otps[i].maxAttempts

CorrectCode(code, i) == verifyCode(toUpperCase(code), otps[i].codeHash)

\* the most recently created rows of the pair the returned call was about
RetLatest == LastOTPs(otps, ret.accountId, ret.phone)

InFlight(p) == calls[p].pc # "idle"

C2_SinglePendingAndOnePasses ==
    /\ \A a \in Accounts, ph \in Phones : Cardinality(PendingIds(a, ph)) <= 1
    /\ \A p, q \in Procs :
          (/\ p # q
           /\ InFlight(p) /\ InFlight(q)
           /\ calls[p].op \in {"request", "resend"}
           /\ calls[q].op \in {"request", "resend"}
           /\ calls[p].accountId = calls[q].accountId
           /\ calls[p].phone = calls[q].phone)
          => \/ calls[p].startedAt - calls[q].startedAt >= CooldownSeconds * 1000
             \/ calls[q].startedAt - calls[p].startedAt >= CooldownSeconds * 1000

\* C3: no OTP record is verified more than once: at most one verifyOTP call
\* returns success for it, also when the calls interleave.
C3_VerifiedOnce == \A i \in Ids(otps) : okCount[i] <= 1

\* C5: the attempt counter of a record never exceeds its maxAttempts.
C5_AttemptsBounded == \A i \in Ids(otps) : otps[i].attempts <= otps[i].maxAttempts

\* C6: a record that is VERIFIED, FAILED or EXPIRED keeps that status in
\* every step.
C6_TerminalStays ==
    [][\A i \in Ids(otps) :
          otps[i].status \in Terminal => otps'[i].status = otps[i].status]_vars

\* the newest record of the pair, and no requestOTP / resendOTP for the
\* pair under way: no OTP has been requested since that record
NewestOf(accountId, phone) ==
    {i \in PairIds(accountId, phone) :
        /\ \A j \in PairIds(accountId, phone) : j <= i
        /\ \A p \in Procs :
              (InFlight(p) /\ calls[p].op \in {"request", "resend"})
              => (calls[p].accountId # accountId \/ calls[p].phone # phone)}

\* this step starts a verifyOTP call for the pair: it either returns
\* "no active OTP" at once or goes on with the record it has read
VerifyReturnsNoActive(accountId, phone) ==
    /\ ret'.op = "verify"
    /\ ret'.res = "no_active"
    /\ ret'.accountId = accountId
    /\ ret'.phone = phone

VerifyGoesOn(p, accountId, phone) ==
    /\ calls[p].pc = "idle"
    /\ calls'[p].pc = "check"
    /\ calls'[p].accountId = accountId
    /\ calls'[p].phone = phone

C4_State ==
    AllIdle => \A i \in Ids(otps) : Exhausted(i) => otps[i].status = FAILED

\* C4: a record whose attempts have reached maxAttempts is FAILED once the
\* calls on it have returned, and as long as no new OTP is requested for the
\* pair, a verifyOTP call started after the exhaustion fails: it finds no
\* active OTP, or only the exhausted record.
C4_ExhaustedFailsForGood ==
    [][/\ C4_State'
       /\ \A a \in Accounts, ph \in Phones, p \in Procs :
             (/\ VerifyGoesOn(p, a, ph)
              /\ \E i \in NewestOf(a, ph) : Exhausted(i))
             => calls'[p].otp.attempts >= calls'[p].otp.maxAttempts]_vars

\* C7: once a verifyOTP call has succeeded on the pair's newest record, and
\* no new OTP is requested, a further verifyOTP call with the same code
\* returns "no active OTP" and changes no record.
C7_VerifiedNotReentered ==
    [][\A a \in Accounts, ph \in Phones :
          \A i \in NewestOf(a, ph) :
             okCount[i] >= 1 =>
                /\ \A p \in Procs :
                      VerifyGoesOn(p, a, ph) => ~CorrectCode(calls'[p].code, i)
                /\ (VerifyReturnsNoActive(a, ph) /\ CorrectCode(ret'.code, i))
                      => /\ otps' = otps
                         /\ otps[i].status = VERIFIED]_vars

\* C8: a verifyOTP call that returns success does so for a record whose
\* expiry is later than the time the call started.
C8_NoSuccessAtOrAfterExpiry ==
    ret.res = "verified" => otps[ret.otpId].expiresAt > ret.startedAt

\* the correct code is refused for a record still stored as PENDING whose
\* expiry is not later than the call
C8_Witness ==
    /\ ret.op = "verify"
    /\ ret.res = "no_active"
    /\ \E i \in PairIds(ret.accountId, ret.phone) :
          /\ otps[i].status = PENDING
          /\ otps[i].expiresAt <= ret.startedAt
          /\ CorrectCode(ret.code, i)

\* C9: a verifyOTP call for a pair with a PENDING record whose expiry is
\* earlier than the call marks that record EXPIRED and returns "expired".
C9_ExpiredIsMarkedAndReported ==
    [][\A i \in Ids(otps) :
          (/\ ret'.op = "verify"
           /\ otps[i].accountId = ret'.accountId
           /\ otps[i].recipient = ret'.phone
           /\ otps[i].status = PENDING
           /\ otps[i].expiresAt < ret'.startedAt)
          => (ret'.res = "expired" /\ otps'[i].status = EXPIRED)]_vars

\* the latest record of the pair was created less than the cooldown ago
Recent(accountId, phone) ==
    \E i \in LastOTPs(otps, accountId, phone) :
        now - otps[i].createdAt < CooldownSeconds * 1000

CreatorRunning(i) ==
    \E p \in Procs : calls[p].otpId = i /\ calls[p].pc \in {"send", "markFailedSend"}

PlainCode(i) == CHOOSE code \in GenCodes : hashCode(code) = otps[i].codeHash

\* C12: no persisted record holds the plaintext of an OTP code: the OTP
\* record keeps the hash and not the text of the SMS, and the content of the
\* message row created to deliver the OTP does not contain the code.
C12_NoPlaintextStored ==
    /\ \A i \in Ids(otps) :
          /\ "message" \notin DOMAIN otps[i]
          /\ otps[i].codeHash # PlainCode(i)
    /\ \A k \in 1..Len(messages) :
          messages[k].metadata.type = "otp" =>
             messages[k].content.code # PlainCode(messages[k].metadata.otpId)

\* C13: the record a resendOTP call creates has the code length, the pin
\* type and the maxAttempts of the most recent record of the pair.
C13_ResendKeepsConfiguration ==
    [][\A p \in Procs :
          (/\ calls[p].op = "resend"
           /\ calls[p].pc = "store"
           /\ calls'[p].pc = "send")
          => \E i \in LastOTPs(otps, calls[p].accountId, calls[p].phone) :
                LET j == Len(otps')
                IN  /\ otps'[j].codeLength = otps[i].codeLength
                    /\ otps'[j].maxAttempts = otps[i].maxAttempts
                    /\ pinTypes'[j] = pinTypes[i]]_vars

\* C14: a requestOTP call never fails at its send step because the account
\* has no approved, active sender identity, and the OTP of such an account
\* is delivered under the brand name.
C14_BrandNameFallback ==
    /\ \A p \in Procs :
          (calls[p].op = "request" /\ calls[p].pc = "markFailedSend")
          => calls[p].smsError # "no_sender"
    /\ \A k \in 1..Len(messages) :
          (/\ messages[k].metadata.type = "otp"
           /\ ApprovedSenders(messages[k].accountId) = {})
          => messages[k].senderName = "AfriCom"

(* ------------------------- properties of the SMS API ------------------- *)
\* the message row a cancelSMS call names, if the account has one
OwnMessage(db, accountId, id) == id \in 1..Len(db) /\ db[id].accountId = accountId

\* C15: a cancelSMS call succeeds only on a PENDING message, which becomes
\* FAILED with the reason 'Cancelled by user'; for a message that exists but
\* is not PENDING the call changes nothing and answers "too late to cancel",
\* which is not the answer it gives for a message that does not exist.
C15_CancelOnlyPending ==
    [][smsRet'.op = "cancelSMS" =>
         LET id == smsRet'.id
             accountId == smsRet'.accountId
         IN  IF smsRet'.error = ""
             THEN /\ messages[id].status = MSG_PENDING
                  /\ messages'[id].status = MSG_FAILED
                  /\ messages'[id].errorMessage = "Cancelled by user"
             ELSE /\ messages' = messages
                  /\ OwnMessage(messages, accountId, id) => smsRet'.error = "too_late"
                  /\ ~OwnMessage(messages, accountId, id) => smsRet'.error = "not_found"]_vars

\* the order of the message statuses; the three final ones share the last place
StatusRank(status) ==
    CASE status = MSG_PENDING -> 0
      [] status = MSG_QUEUED  -> 1
      [] status = MSG_SENT    -> 2
      [] OTHER                -> 3

\* C16: every status change of a message moves it forward in the order
\* PENDING, QUEUED, SENT, then DELIVERED, FAILED or EXPIRED; no step moves a
\* message backward or out of DELIVERED, FAILED or EXPIRED.
C16_StatusMovesForward ==
    [][\A k \in 1..Len(messages) :
          /\ StatusRank(messages'[k].status) >= StatusRank(messages[k].status)
          /\ messages[k].status \in MsgTerminal => messages'[k].status = messages[k].status]_vars

\* the rows a step has added to the message table
CreatedRows == (Len(messages) + 1)..Len(messages')

\* the ids of the accepted rows of a bulk response
AcceptedIds(results) ==
    {results[k].id : k \in {j \in 1..Len(results) : results[j].status = "accepted"}}

\* C17: the response of a sendBulkSMS call with N recipients has one result
\* row per recipient in input order, accepted + rejected = totalRecipients =
\* N, a recipient with a malformed number, without message or without
\* provider is rejected and the others are still processed, exactly the
\* accepted recipients have a message row, and these rows all carry the
\* response's batch id, which no other row carries.
C17_BulkResponse ==
    [][(smsRet'.op = "sendBulkSMS" /\ smsRet'.error = "") =>
         LET r == smsRet'
             recipients == r.request.recipients
             N == Len(recipients)
             Unfit(k) == \/ recipients[k].to \in MalformedPhones
                         \/ recipients[k].message.length = 0 /\ r.request.message.length = 0
                         \/ r.providers[k] = NoProvider
         IN  /\ Len(r.results) = N
             /\ r.totalRecipients = N
             /\ r.accepted + r.rejected = N
             /\ \A k \in 1..N :
                   /\ r.results[k].to = recipients[k].to
                   /\ r.results[k].status = IF Unfit(k) THEN "rejected" ELSE "accepted"
             /\ AcceptedIds(r.results) = CreatedRows
             /\ Cardinality(CreatedRows) = r.accepted
             /\ \A k \in 1..N :
                   r.results[k].status = "accepted" =>
                      /\ messages'[r.results[k].id].recipient = recipients[k].to
                      /\ messages'[r.results[k].id].batchId = r.batchId
             /\ \A id \in 1..Len(messages) :
                   messages'[id] = messages[id] /\ messages[id].batchId # r.batchId]_vars

\* a bulk call whose first recipient was rejected and whose second was accepted
C17_Witness ==
    /\ smsRet.op = "sendBulkSMS"
    /\ smsRet.error = ""
    /\ smsRet.rejected = 1
    /\ smsRet.accepted = 1
    /\ smsRet.results[1].status = "rejected"
    /\ smsRet.results[2].status = "accepted"
    /\ messages[smsRet.results[2].id].batchId = smsRet.batchId

\* scheduledFor names a moment after the present one
InFuture(scheduledFor) == scheduledFor # <<>> /\ scheduledFor[1] > now

\* C18: sendSMS creates its message with status PENDING exactly when
\* scheduledFor is in the future and with status QUEUED otherwise, and hands
\* the message to the send queue only in the QUEUED case.
C18_ScheduledIsPending ==
    [][(smsRet'.op = "sendSMS" /\ smsRet'.error = "") =>
         LET id == smsRet'.id
         IN  /\ CreatedRows = {id}
             /\ messages'[id].status =
                   IF InFuture(smsRet'.request.scheduledFor) THEN MSG_PENDING ELSE MSG_QUEUED
             /\ smsRet'.status = messages'[id].status
             /\ queue' = IF messages'[id].status = MSG_QUEUED THEN queue \cup {id} ELSE queue]_vars

\* a send whose scheduledFor is no longer in the future was queued, while a
\* message scheduled earlier is PENDING and not queued
C18_Witness ==
    /\ smsRet.op = "sendSMS"
    /\ smsRet.error = ""
    /\ smsRet.request.scheduledFor # <<>>
    /\ messages[smsRet.id].status = MSG_QUEUED
    /\ smsRet.id \in queue
    /\ \E k \in 1..Len(messages) :
          /\ messages[k].messageType = "SMS"
          /\ messages[k].scheduledFor # <<>>
          /\ messages[k].status = MSG_PENDING
          /\ k \notin queue

\* C19: every message that sendBulkSMS creates starts as sendSMS would start
\* it: PENDING when scheduledFor is in the future and QUEUED otherwise, and
\* it is handed to the send queue only when it is not scheduled.
C19_BulkFollowsSchedule ==
    [][(smsRet'.op = "sendBulkSMS" /\ smsRet'.error = "") =>
         \A id \in CreatedRows :
            /\ messages'[id].status =
                  IF InFuture(smsRet'.request.scheduledFor) THEN MSG_PENDING ELSE MSG_QUEUED
            /\ id \in queue' <=> ~InFuture(smsRet'.request.scheduledFor)]_vars

\* C20: a sendSMS call with an invalid number, an empty or blank message, a
\* message of more than 1600 characters, an account without approved sender
\* or no provider fails, and a failing sendSMS call creates no message row
\* and queues nothing.
C20_FailedSendCreatesNothing ==
    [][smsRet'.op = "sendSMS" =>
         LET request == smsRet'.request
             Unfit == \/ request.to \in MalformedPhones
                      \/ request.message.trimmedLength = 0
                      \/ request.message.length > MaxMessageLength
                      \/ ApprovedSenders(smsRet'.accountId) = {}
                      \/ smsRet'.provider = NoProvider
         IN  /\ Unfit => smsRet'.error # ""
             /\ smsRet'.error # "" => (messages' = messages /\ queue' = queue)]_vars

\* a send of an over-long message failed, with rows of earlier sends in place
C20_Witness ==
    /\ smsRet.op = "sendSMS"
    /\ smsRet.error = "invalid_message"
    /\ smsRet.request.message.length > MaxMessageLength
    /\ messages # <<>>

(* ---------------------- properties of the functions -------------------- *)
\* C26: calculateMessageUnits gives 0 units for an empty text, 1 unit up to
\* 160 characters (GSM-7) or 70 (UCS-2), and above that the least number of
\* units of 153 (GSM-7) or 67 (UCS-2) characters that hold the text; the
\* units times charactersPerUnit hold every text that is not empty.
C26_UnitsCoverLength ==
    (sched = "units" /\ result # NoValue) =>
       LET n == arg.length
           single == IF arg.gsm7 THEN 160 ELSE 70
           concat == IF arg.gsm7 THEN 153 ELSE 67
       IN  /\ n = 0 => result.units = 0
           /\ (0 < n /\ n <= single) => result.units = 1
           /\ n > single => (result.units * concat >= n /\ (result.units - 1) * concat < n)
           /\ n > 0 => result.units * result.charactersPerUnit >= n

\* a GSM-7 text of three units
C26_Witness ==
    /\ sched = "units"
    /\ result # NoValue
    /\ arg.gsm7
    /\ arg.length > 306
    /\ result.units = 3

\* the rates of the table in force at the moment of the call for the
\* country and message type asked for and the given network ("": country-wide)
InForce(network) ==
    {r \in arg.rates :
        /\ r.country = arg.country /\ r.network = network
        /\ r.messageType = arg.messageType /\ r.isActive
        /\ r.effectiveFrom <= arg.t
        /\ (r.effectiveTo = <<>> \/ r.effectiveTo[1] >= arg.t)}

LatestRates(rs) == {r.ratePerUnit : r \in {m \in rs : \A q \in rs : q.effectiveFrom <= m.effectiveFrom}}

\* C22: getPricing for a network without a rate in force, in a country that
\* has a country-wide rate in force, returns the country-wide rate and not
\* the fallback; among several rates that match, the one with the latest
\* effectiveFrom is returned.
C22_CountryWideRate ==
    (sched = "pricing" /\ result # NoValue /\ arg.storeOk) =>
       /\ result # [kind |-> "thrown"]
       /\ InForce(arg.network) # {} => result.ratePerUnit \in LatestRates(InForce(arg.network))
       /\ (arg.network # "" /\ InForce(arg.network) = {} /\ InForce("") # {}) =>
             result.ratePerUnit \in LatestRates(InForce(""))

\* C23: getPricing always returns; when the country has no rate at all, or
\* the lookup raises, it returns the fallback rate of 0.035 per unit and
\* totalCost = 0.035 x units.
C23_FallbackNeverFails ==
    (sched = "pricing" /\ result # NoValue) =>
       /\ result # [kind |-> "thrown"]
       /\ (~arg.storeOk \/ {r \in arg.rates : r.country = arg.country} = {}) =>
             /\ result.ratePerUnit = 35
             /\ result.totalCost = 35 * arg.units
             /\ result.units = arg.units

\* the lookup raised for a destination that has a rate, and two units were priced
C23_Witness ==
    /\ sched = "pricing"
    /\ result # NoValue
    /\ ~arg.storeOk
    /\ InForce(arg.network) # {}
    /\ arg.units = 2
    /\ result.totalCost = 70

\* C21: every message row that sendSMS or sendBulkSMS created has
\* totalCost = unitCost x units, with the units of its stored content.
C21_TotalCostIsRateTimesUnits ==
    \A k \in 1..Len(messages) :
       /\ messages[k].totalCost = messages[k].unitCost * messages[k].units
       /\ messages[k].units =
             calculateMessageUnits(messages[k].content.length, messages[k].content.gsm7).units

\* a single message of two units at the configured rate and a bulk message
\* at the fallback rate
C21_Witness ==
    \E j, k \in 1..Len(messages) :
       /\ messages[j].messageType = "SMS"
       /\ messages[j].units = 2
       /\ messages[j].totalCost = 60
       /\ messages[k].messageType = "BULK"
       /\ messages[k].totalCost = 35

(* ----------------------- properties of the routing --------------------- *)
\* the providers of type SMS that are switched on and serve the country
Serving(country) ==
    {id \in DOMAIN providerTable :
        /\ providerTable[id].type = "SMS"
        /\ providerTable[id].status = "ACTIVE"
        /\ country \in providerTable[id].supportedCountries}

C25_UnhealthyNeverSelected ==
    (sched = "router" /\ result # NoValue /\ result.id # "") =>
       providerTable[result.id].errorCount <= UnhealthyErrorCount

(* -------------------- properties of the phone numbers ------------------ *)
\* a single leading + followed only by digits, 10 to 16 characters in all
IsE164(phone) ==
    /\ Len(phone) >= 10
    /\ Len(phone) <= 16
    /\ Head(phone) = "+"
    /\ \A i \in 2..Len(phone) : phone[i] \in Digits

\* C27: the formatted number of every input that validatePhoneNumber
\* reports as valid is one leading + followed only by digits, with 10 to 16
\* characters in all.
C27_FormattedIsE164 ==
    (sched = "phone" /\ result.kind = "validated" /\ result.value.valid)
        => IsE164(result.value.formatted)

\* C28: normalizePhoneNumber applied to its own result returns that result,
\* and validatePhoneNumber applied to its own formatted number returns the
\* same formatted number and the same validity.
C28_NormalizationIdempotent ==
    /\ (sched = "phone" /\ result.kind = "renormalized") => result.value = result.input
    /\ (sched = "phone" /\ result.kind = "revalidated") =>
          /\ result.value.formatted = result.input.formatted
          /\ result.value.valid = result.input.valid

\* a local number was given its calling code, and normalizing the result
\* again changed nothing
C28_Witness ==
    /\ sched = "phone"
    /\ result.kind = "renormalized"
    /\ arg.value = <<"0", "2", "4", "4", "1", "2", "3", "4", "5", "6">>
    /\ result.value = <<"+", "2", "3", "3", "2", "4", "4", "1", "2", "3", "4", "5", "6">>

\* C29: normalizePhoneNumber turns the local number of each country of the
\* README's table into the E.164 number with that country's calling code.
C29_LocalToOwnCountry ==
    (sched = "phone" /\ result.kind = "normalized") =>
        \A e \in LocalExamples : result.input = e.local => result.value = e.e164

(* -------------------- properties of the rate limiting ------------------ *)
\* C30: for each key and each limiter, no more than the limiter's max
\* requests have gone on to the handler since the key's window began, a
\* request answered 429 found the count at the limit, and the count stored
\* for the key is between 0 and the limiter's max.
C30_AtMostMaxPerWindow ==
    sched = "limiter" =>
        /\ \A key \in DOMAIN rateLimitStore : \A limiter \in Limiters :
              /\ passed[key][limiter.name] <= limiter.max
              /\ rateLimitStore[key].count >= 0
              /\ rateLimitStore[key].count <= limiter.max
        /\ (result # NoValue /\ result.status = 429 /\ result.key \in DOMAIN rateLimitStore) =>
              \E limiter \in Limiters :
                 /\ limiter.name = result.limiter
                 /\ rateLimitStore[result.key].count >= limiter.max

(* ------------------- properties of the OTP store, II ------------------- *)
\* row i belongs to the pair the call c is made for
OfCall(db, i, c) == db[i].accountId = c.accountId /\ db[i].recipient = c.phone

\* the three store steps of a requestOTP or resendOTP call of task p
C31_Steps(p) ==
    LET c == calls[p]
    IN  /\ (c.pc = "invalidate" /\ calls'[p].pc = "store") =>
              /\ Len(otps') = Len(otps)
              /\ \A i \in Ids(otps) :
                    IF OfCall(otps, i, c) /\ otps[i].status = PENDING
                    THEN otps'[i] = [otps[i] EXCEPT !.status = EXPIRED]
                    ELSE otps'[i] = otps[i]
        /\ (c.pc = "store" /\ calls'[p].pc = "send") =>
              /\ Len(otps') = Len(otps) + 1
              /\ SubSeq(otps', 1, Len(otps)) = otps
              /\ OfCall(otps', Len(otps'), c)
              /\ otps'[Len(otps')].status = PENDING
              /\ otps'[Len(otps')].attempts = 0
        /\ (c.pc = "send" /\ calls'[p].pc = "idle") => otps' = otps

C32_ErrorCountIsFailureStreak ==
    sched = "router" =>
        \A id \in DOMAIN providerTable :
            providerTable[id].errorCount = failures[id].sinceSuccess

\* a success was recorded after failures, and failures of another provider
\* have been counted
C32_Witness ==
    /\ sched = "router"
    /\ failures["hubtel"].ever
    /\ providerTable["hubtel"].errorCount = 0
    /\ providerTable["mnotify"].errorCount = 2

(* ---------------------- properties of the SMS API, II ------------------ *)
\* C37: the update of a cancelSMS call leaves alone a message that is no
\* longer PENDING when the update runs.
C37_CancelChecksBeforeWrite ==
    [][\A p \in Procs :
          (/\ cancels[p] # 0
           /\ cancels'[p] = 0
           /\ messages[cancels[p]].status # MSG_PENDING) => messages' = messages]_vars

(* ------------------- properties of the OTP store, III ------------------ *)
\* the calls that end in an error
FailedCall ==
    /\ ret.op \in {"request", "resend"}
    /\ ret.res \in {"rate_limited", "no_previous", "send_failed"}

\* C40: when a requestOTP or resendOTP call ends in an error, the cooldown
\* of its (account, phone) stands as before the call (a call that got past
\* the cooldown check may be repeated at once), and no record of the pair
\* has been made EXPIRED by the call (a record that is EXPIRED before its
\* expiry time was invalidated by the call that created the next record of
\* the pair).
C40_FailedCallChangesNothing ==
    (sched = "serial" /\ FailedCall) =>
        /\ ret.res # "rate_limited" =>
              checkRateLimit(otps, now, ret.accountId, ret.phone, CooldownSeconds).canSend
        /\ \A i \in PairIds(ret.accountId, ret.phone) :
              (i # ret.otpId /\ otps[i].status = EXPIRED /\ otps[i].expiresAt > now)
                 => \E j \in PairIds(ret.accountId, ret.phone) : j > i /\ j # ret.otpId

\* the account whose request created OTP record i: the account of the
\* message that carries the OTP
Requesters(i) ==
    {messages[k].accountId :
        k \in {m \in 1..Len(messages) : /\ messages[m].metadata.type = "otp"
                                        /\ messages[m].metadata.otpId = i}}

\* C38: an OTP record is stored under the account id that requested it, and
\* a verifyOTP call finds only records that its own account requested.
C38_StoredUnderRequester ==
    sched = "serial" =>
        /\ ret.res = "sent" => otps[ret.otpId].accountId = ret.accountId
        /\ (ret.op = "verify" /\ ret.otpId # 0) => Requesters(ret.otpId) \subseteq {ret.accountId}

(* ------------------ properties of the rate limiting, II ---------------- *)
\* C39: the quota a key has with one limiter is used up only by requests
\* through that limiter: a request is refused by a limiter only when that
\* limiter itself has let max requests of the key through in the window.
C39_QuotasDoNotInterfere ==
    sched = "limiter" =>
        \A limiter \in Limiters :
           (/\ result # NoValue
            /\ result.status = 429
            /\ result.limiter = limiter.name
            /\ result.key \in DOMAIN passed) => passed[result.key][limiter.name] >= limiter.max

(* ------------------- properties of the OTP store, III ------------------ *)
\* a record of the store that is PENDING although its expiry time has passed
Overdue(db, i, t) == i \in Ids(db) /\ db[i].status = PENDING /\ db[i].expiresAt < t

\* a run of cleanupExpiredOTPs: the only step that changes the store while
\* no call moves
SweepStep == otps' # otps /\ calls' = calls

C33_HandoffFailureIsHarmless ==
    [][/\ (smsRet'.op = "sendSMS" /\ ~smsRet'.handoff) =>
             LET r    == smsRet'
                 sent == sendSMS(messages, queue, now, r.accountId, r.request, r.provider, TRUE)
             IN  /\ r.error = sent.error
                 /\ r.id = sent.id
                 /\ r.status = sent.status
                 /\ messages' = sent.messages
       /\ (smsRet'.op = "sendBulkSMS" /\ smsRet'.error = "") =>
             LET r    == smsRet'
                 done == sendBulkSMS(messages, queue, now, r.batchId, r.accountId, r.request,
                                     r.providers, AllHandedOff(Len(r.request.recipients)))
             IN  /\ done.error = ""
                 /\ r.results = done.results
                 /\ r.accepted = done.accepted
                 /\ r.rejected = done.rejected
                 /\ messages' = done.messages]_vars

\* sendSMS has answered with a QUEUED message that the send queue did not take
C33_Witness ==
    /\ smsRet.op = "sendSMS"
    /\ ~smsRet.handoff
    /\ smsRet.error = ""
    /\ smsRet.status = MSG_QUEUED
    /\ messages[smsRet.id].status = MSG_QUEUED
    /\ smsRet.id \notin queue

(* ---------------------- properties of the billing ---------------------- *)
\* C35: a request answered 2xx is debited the cost the service reported (for
\* a bulk send the sum over the accepted messages, zero when every recipient
\* is rejected), and a request answered otherwise is debited nothing.
C35_DebitIsActualCost ==
    sched = "billing" =>
        \A p \in Procs :
           billing[p].pc = "done" =>
              IF billing[p].status >= 200 /\ billing[p].status < 300
              THEN billing[p].debited = billing[p].actualCost
              ELSE billing[p].debited = 0

\* C36: the balances of an account, and their sum, are never negative.
C36_BalancesNeverNegative ==
    sched = "billing" =>
        \A a \in DOMAIN accountTable :
           /\ accountTable[a].walletBalance >= 0
           /\ accountTable[a].creditBalance >= 0
           /\ accountTable[a].walletBalance + accountTable[a].creditBalance >= 0

====
